---------------------------- MODULE Spec2Model ----------------------------
(***************************************************************************)
(* Model of the hospital data generator's orchestration code              *)
(* (src/generator_core.py) and of the control panel that drives it        *)
(* (src/app.py): the Run Status store, the Persistence Sink calls, the    *)
(* foreground historic run and the background live workers.                *)
(*                                                                         *)
(* Execution contexts are numbered: context 0 (FG) is the foreground       *)
(* request path of the control panel, contexts 1..MaxWorkers are the       *)
(* threads created by start_live_simulation, in creation order.            *)
(*                                                                         *)
(* _write_status and _append_log run their whole read-merge-persist body   *)
(* inside "with _status_lock", so each call is one atomic step here. Reads *)
(* of the store made outside those two functions (save_dataframe line 179, *)
(* _upload_path_to_adls line 104) are steps of their own.                  *)
(* A status write that raises is modelled as failing in open(), before the *)
(* file is changed.                                                        *)
(*                                                                         *)
(* The records one generation produces (patients, admissions, labs,        *)
(* diagnostics, medications, occupancy, revenue), the bounded log of the   *)
(* Run Status record and weighted_choice are modelled in sections of their *)
(* own, each with its specification: SpecData, SpecLog, SpecSampler.       *)
(*                                                                         *)
(* The record ids handed to the tables and files over a sequence of runs   *)
(* and ticks (SpecOutputs), and STATUS_FILE as the lock-free GET /status   *)
(* sees it while _write_status rewrites it (SpecStatusFile), are sections  *)
(* of their own as well.                                                   *)
(***************************************************************************)
EXTENDS Integers, Sequences, FiniteSets, TLC

\* ---- bounds of the model
MaxWorkers == 2      \* threads start_live_simulation may create in one behaviour
MaxBatch == 2        \* ticks one worker may begin
MaxPatients == 1     \* largest num_patients of a historic request
MaxFaults == 2       \* failures the environment produces in one behaviour
MaxRuns == 2         \* generate requests in one behaviour
MaxOptions == 3      \* longest list passed to weighted_choice on its own
MaxWeight == 3       \* largest weight in such a list
MaxCalls == 202      \* calls of _append_log / _write_status in one behaviour
MaxDataPatients == 1 \* largest num_patients of a generation followed record by record
MaxSpan == 2         \* largest number of days between start_date and end_date
MaxLabs == 2         \* largest number of labs of one admission
MaxDraws == 2        \* random draws of one generation that differ from the first
                     \* value of their range
MaxWrites == 3       \* largest number of _write_status calls followed write by write

\* ---- program constants
NumEncodings == 3    \* csv.gz, json.gz, parquet: files = [csv_path, json_path, parquet_path]
AdmissionsPerPatient == 3
LogCap == 200        \* logs = logs[-200:]
HistMaxLos == 12     \* fake.random_int(1, 12)
LiveMaxLos == 10     \* fake.random_int(1, 10)
MaxQty == 10         \* random.randint(1, 10)
LivePatients == 3    \* for i in range(3)
LiveAdmissions == 10 \* num_new = 10
DefaultWardRate == 4500
DefaultLabPrice == 800
DefaultDiagPrice == 1500
FirstDay == 1        \* day number of the earliest date of the model

FG == 0
Workers == 1..MaxWorkers
Ctx == 0..MaxWorkers

\* entity sets saved by generate_historic_data, in the order of its save_dataframe calls
HistStages == <<"patients", "admissions", "labs", "diagnostics", "medications",
                "occupancy", "revenue">>
\* entity sets saved by one live tick (the batch number is part of the file name)
LiveStages == <<"patients_live", "admissions_live">>
\* tables appended by generate_historic_data, in order; the first two unconditionally
HistTables == <<"patients", "admissions", "labs", "diagnostics", "medications", "revenue">>
\* tables appended by one live tick
LiveTables == <<"patients_live", "admissions_live">>
\* the step values of a historic run, in the order the code writes them
StepOrder == <<"init", "patients", "admissions", "labs", "diagnostics", "medications",
               "occupancy", "revenue", "db_write", "done">>

VARIABLES
  liveRunning,   \* _live_running
  liveThread,    \* _live_thread: 0 for None, else the context of the last thread created
  nThreads,      \* number of threads created so far
  pc,            \* pc[c]: position of context c in the code
  stage,         \* stage[c]: index of the entity set / table / encoding loop being handled
  fidx,          \* fidx[c]: index into files of the "for f in files" upload loop
  rd,            \* rd[c]: the list context c read from the store outside the lock
  engine,        \* engine[c]: "unset", "ok" (an Engine) or "none" (None)
  batch,         \* batch[w]: the batch counter of worker w
  numPatients,   \* num_patients of the current historic request
  dfEmpty,       \* entity sets of the current historic run whose DataFrame is empty
  adlsEnabled,   \* _adls_enabled(): the ADLS_UPLOAD environment setting
  faults,        \* kinds of failure the environment of this behaviour can produce
  faultsLeft,    \* number of failures the environment may still produce
  threadCap,     \* number of threads the operator's start requests may create
  runsLeft,      \* number of generate requests the operator may still make
  batchCap,      \* number of ticks a worker is followed through
  status,        \* contents of STATUS_FILE, its log apart
  logged,        \* logged[c]: the newest message context c appended to the log
  \* ---- history variables (record what happened, never read by the program)
  died,          \* died[c]: where and why an exception escaped context c
  stopSeen,      \* stopSeen[w]: stop_live_simulation was called while w was running
  added,         \* paths whose addition to files_written was persisted since the last reset
  upAdded,       \* paths whose addition to adls_uploaded was persisted
  histSteps,     \* step values written by the current historic run, in order
  generated,     \* entity sets generated by the current historic run
  saved,         \* entity sets whose files the current historic run wrote
  appended,      \* appended[c]: c attempted a table append (this run / this worker)
  \* ---- the data of one generation (a historic run or one live tick)
  dpc,           \* position in the generation code
  req,           \* the request: mode, start and end date (day numbers), patient count
  loop,          \* loop state: index of the record being generated, records still to add
  patients,      \* the patients list
  admissions,    \* the admissions list
  labs,          \* the labs list
  diagnostics,   \* the diagnostics list
  meds,          \* the meds list
  occRows,       \* occ_rows
  occupancy,     \* df_occupancy_agg: its columns and its rows
  revenue,       \* rev_rows
  counts,        \* the counts of the final status update
  drawsLeft,     \* random draws that may still differ from the first value of their range
  \* ---- the log of the Run Status record
  logs,          \* status["logs"]
  lastMessage,   \* status["last_message"]
  clock,         \* datetime.utcnow() of the next call
  sent,          \* history: every message passed to _append_log, in order
  \* ---- one call of weighted_choice
  wcOptions,     \* options_with_weights
  wcR,           \* r = random.uniform(0, total)
  wcResult,      \* the value returned (0: not called yet)
  \* ---- the ids handed to the outputs over a sequence of runs and ticks
  outTables,     \* the ids in the Patients and Admissions tables, in insertion order
  outFiles,      \* the ids in each file written by save_dataframe, by file name
  outEngine,     \* the live worker's engine: "none" (no worker), "ok" or "down"
  outBatch,      \* the live worker's batch counter
  outLeft,       \* historic runs and worker starts that may still happen
  \* ---- STATUS_FILE as a reader without the lock sees it
  sfFile,        \* whether the file exists, and the tokens in it
  sfLock,        \* holder of _status_lock (-1: free)
  sfPc,          \* position of each writer inside _write_status
  sfDoc,         \* the tokens each writer is dumping
  sfLeft,        \* status updates that may still happen
  sfDone,        \* history: every document a finished update has left in the file
  seen           \* what the last GET /status read and replied ("none": no request yet)

ctl == <<liveRunning, liveThread, nThreads>>
loc == <<stage, fidx, rd, engine, batch>>
run == <<numPatients, dfEmpty, adlsEnabled, faults, threadCap, runsLeft, batchCap>>
vars == <<liveRunning, liveThread, nThreads, pc, stage, fidx, rd, engine, batch,
          numPatients, dfEmpty, adlsEnabled, faults, faultsLeft, threadCap, runsLeft,
          batchCap, status, logged,
          died, stopSeen, added, upAdded, histSteps, generated, saved, appended,
          dpc, req, loop, patients, admissions, labs, diagnostics, meds, occRows,
          occupancy, revenue, counts, drawsLeft,
          logs, lastMessage, clock, sent, wcOptions, wcR, wcResult,
          outTables, outFiles, outEngine, outBatch, outLeft,
          sfFile, sfLock, sfPc, sfDoc, sfLeft, sfDone, seen>>
\* the orchestration state (everything above the data of one generation)
prog == <<liveRunning, liveThread, nThreads, pc, stage, fidx, rd, engine, batch,
          numPatients, dfEmpty, adlsEnabled, faults, faultsLeft, threadCap, runsLeft,
          batchCap, status, logged,
          died, stopSeen, added, upAdded, histSteps, generated, saved, appended>>
gen == <<dpc, req, loop, patients, admissions, labs, diagnostics, meds, occRows,
         occupancy, revenue, counts, drawsLeft>>
logv == <<logs, lastMessage, clock, sent>>
smp == <<wcOptions, wcR, wcResult>>
outv == <<outTables, outFiles, outEngine, outBatch, outLeft>>
sfv == <<sfFile, sfLock, sfPc, sfDoc, sfLeft, sfDone, seen>>
\* the state the orchestration actions do not look into
aux == <<gen, logv, smp, outv, sfv>>

\* What can go wrong outside the program: "param" a malformed request
\* parameter, "file" a failing to_csv / to_json / to_parquet, "status" a failing
\* write of STATUS_FILE, "db" an unreachable database or a failing to_sql,
\* "upload" a missing storage client or a failing upload_blob.
FaultKinds == {"param", "file", "status", "db", "upload"}

\* the outcomes (TRUE: success) of an operation that fails only by a fault of kind k
May(k) == IF k \in faults /\ faultsLeft > 0 THEN BOOLEAN ELSE {TRUE}

NoDeath == [at |-> "", stage |-> 0, cause |-> ""]

\* _read_status() of an absent or unreadable file is {}: every field absent
EmptyStatus ==
  [step |-> "", files_written |-> {}, adls_uploaded |-> {}, db_connected |-> "",
   db_error |-> FALSE, db_write_ok |-> "", patients |-> -1,
   admissions |-> -1, revenue_rows |-> -1, last_live_counts |-> FALSE]

\* The state after import of generator_core and app (no status file, no
\* thread), in an environment with the given faults and operator requests.
InitWith(kinds, nfaults, adls, threads, runs, ticks) ==
  /\ faults = kinds
  /\ faultsLeft = nfaults
  /\ adlsEnabled \in adls
  /\ threadCap = threads
  /\ runsLeft = runs
  /\ batchCap = ticks
  /\ liveRunning = FALSE
  /\ liveThread = 0
  /\ nThreads = 0
  /\ pc = [c \in Ctx |-> IF c = FG THEN "idle" ELSE "none"]
  /\ stage = [c \in Ctx |-> 0]
  /\ fidx = [c \in Ctx |-> 0]
  /\ rd = [c \in Ctx |-> {}]
  /\ engine = [c \in Ctx |-> "unset"]
  /\ batch = [c \in Ctx |-> 0]
  /\ numPatients = 0
  /\ dfEmpty = {}
  /\ status = EmptyStatus
  /\ logged = [c \in Ctx |-> ""]
  /\ died = [c \in Ctx |-> NoDeath]
  /\ stopSeen = [c \in Ctx |-> FALSE]
  /\ added = {}
  /\ upAdded = {}
  /\ histSteps = <<>>
  /\ generated = {}
  /\ saved = {}
  /\ appended = [c \in Ctx |-> FALSE]

\* no generation under way: no request, every list empty
NoRequest == [mode |-> "none", start |-> 0, end |-> 0, n |-> 0, batch |-> 0]
NoCounts == [patients |-> -1, admissions |-> -1, labs |-> -1, diagnostics |-> -1,
             medications |-> -1, revenue_rows |-> -1]
NoTable == [columns |-> <<>>, rows |-> {}]
GenIdle ==
  /\ dpc = "idle"
  /\ req = NoRequest
  /\ loop = [i |-> 0, k |-> 0, j |-> 0]
  /\ patients = <<>>
  /\ admissions = <<>>
  /\ labs = <<>>
  /\ diagnostics = <<>>
  /\ meds = <<>>
  /\ occRows = <<>>
  /\ occupancy = NoTable
  /\ revenue = <<>>
  /\ counts = NoCounts
  /\ drawsLeft = 0
\* no status file yet: _read_status() gives no "logs" and no "last_message"
LogIdle ==
  /\ logs = <<>>
  /\ lastMessage = ""
  /\ clock = 0
  /\ sent = <<>>
\* weighted_choice not called
SmpIdle ==
  /\ wcOptions = <<>>
  /\ wcR = 0
  /\ wcResult = 0
\* no run or tick has handed anything over, and none will
OutIdle ==
  /\ outTables = [Patients |-> <<>>, Admissions |-> <<>>]
  /\ outFiles = <<>>
  /\ outEngine = "none"
  /\ outBatch = 0
  /\ outLeft = [runs |-> 0, starts |-> 0]
\* STATUS_FILE does not exist, and nothing will write or read it
SfIdle ==
  /\ sfFile = [exists |-> FALSE, text |-> <<>>]
  /\ sfLock = -1
  /\ sfPc = [c \in {FG, 1} |-> "idle"]
  /\ sfDoc = [c \in {FG, 1} |-> <<>>]
  /\ sfLeft = 0
  /\ sfDone = {}
  /\ seen = [reply |-> "none", text |-> <<>>]
IoIdle == OutIdle /\ SfIdle
AuxIdle == GenIdle /\ LogIdle /\ SmpIdle /\ IoIdle
\* the orchestration at rest: nothing requested, nothing can fail
ProgIdle == InitWith({}, 0, {FALSE}, 0, 0, 0)

\* ------------------------------------------------------------------------
\* helpers

IdleLike(p) == p \in {"idle", "done", "failed"}

\* a context whose thread exists and has not left _live_loop
Alive(w) == pc[w] \notin {"none", "exited", "crashed"}

\* dict.update: the fields of upd replace those of cur
Merge(cur, upd) ==
  [f \in DOMAIN cur |-> IF f \in DOMAIN upd THEN upd[f] ELSE cur[f]]

\* name of the entity set context c is saving, and the batch in its file name
SaveName(c) == IF c = FG THEN HistStages[stage[c]] ELSE LiveStages[stage[c]]
SaveBatch(c) == IF c = FG THEN 0 ELSE batch[c]
\* files = [csv_path, json_path, parquet_path]
Files(c) == {<<SaveName(c), SaveBatch(c), e>> : e \in 1..NumEncodings}

\* Handler without the try/except around the table appends of the db_write stage
HandlerDbUncaught(c, p) ==
  IF p \in {"ge_connect", "ge_oklog", "ge_okwrite"} THEN "ge_faillog"
  ELSE IF p \in {"up_client", "up_blob", "up_oklog", "up_write"} THEN "up_faillog"
  ELSE IF c = FG THEN "failed"
  ELSE IF p \in {"w_tosql", "w_dblog"} THEN "w_dbfaillog"
  ELSE IF p \in {"sd_files", "sd_log", "sd_write", "up_faillog", "w_dbfaillog", "w_counts"}
    THEN "w_errlog"
  ELSE "crashed"

\* The pc an exception raised at position p of context c is handled at: the
\* innermost enclosing try/except of the code, "failed" when it escapes the
\* request handler, "crashed" when it escapes _live_loop.
Handler(c, p) ==
  IF p \in {"ge_connect", "ge_oklog", "ge_okwrite"} THEN "ge_faillog"
  ELSE IF p \in {"up_client", "up_blob", "up_oklog", "up_write"} THEN "up_faillog"
  ELSE IF c = FG
    THEN IF p \in {"h_tosql", "h_tolog", "h_dbok"} THEN "h_dbfaillog" ELSE "failed"
  ELSE IF p \in {"w_tosql", "w_dblog"} THEN "w_dbfaillog"
  ELSE IF p \in {"sd_files", "sd_log", "sd_write", "up_faillog", "w_dbfaillog", "w_counts"}
    THEN "w_errlog"
  ELSE "crashed"

Raise(c, cause) ==
  LET h == Handler(c, pc[c]) IN
  /\ faultsLeft' = faultsLeft - 1
  /\ pc' = [pc EXCEPT ![c] = h]
  /\ died' = IF h \in {"failed", "crashed"}
             THEN [died EXCEPT ![c] = [at |-> pc[c], stage |-> stage[c], cause |-> cause]]
             ELSE died

\* _write_status(upd) called by context c, continuing at next; ok = FALSE: it raises
WriteStatus(c, upd, next, ok) ==
  IF ok
  THEN /\ status' = Merge(status, upd)
       /\ pc' = [pc EXCEPT ![c] = next]
       /\ UNCHANGED <<died, logged, faultsLeft>>
       /\ histSteps' = IF c = FG /\ "step" \in DOMAIN upd
                       THEN Append(histSteps, upd.step) ELSE histSteps
  ELSE /\ Raise(c, "status")
       /\ UNCHANGED <<status, logged, histSteps>>

\* _append_log(message) called by context c, continuing at next
AppendLog(c, message, next, ok) ==
  IF ok
  THEN /\ logged' = [logged EXCEPT ![c] = message]
       /\ pc' = [pc EXCEPT ![c] = next]
       /\ UNCHANGED <<status, died, histSteps, faultsLeft>>
  ELSE /\ Raise(c, "status")
       /\ UNCHANGED <<status, logged, histSteps>>

\* a step that touches nothing but the program counter
Jump(c, next) ==
  /\ pc' = [pc EXCEPT ![c] = next]
  /\ UNCHANGED <<status, logged, died, histSteps, faultsLeft>>

\* a local step that raises
Fail(c, cause) ==
  /\ Raise(c, cause)
  /\ UNCHANGED <<status, logged, histSteps>>

\* where save_dataframe returns to
AfterSavePc(c) ==
  IF c = FG THEN (IF stage[c] < Len(HistStages) THEN "h_step" ELSE "h_dbstep")
  ELSE IF stage[c] < Len(LiveStages) THEN "sd_files"
  ELSE IF engine[c] = "ok" THEN "w_tosql" ELSE "w_counts"
AfterSaveStage(c) ==
  IF c = FG THEN (IF stage[c] < Len(HistStages) THEN stage[c] + 1 ELSE 0)
  ELSE IF stage[c] < Len(LiveStages) THEN stage[c] + 1
  ELSE IF engine[c] = "ok" THEN 1 ELSE 0

\* where _get_engine returns to, with engine e
AfterEnginePc(c, e) ==
  IF c = FG THEN (IF e = "ok" THEN "h_tosql" ELSE "h_final") ELSE "w_check"
AfterEngineStage(c, e) == IF c = FG /\ e = "ok" THEN 1 ELSE 0

\* the next table generate_historic_data appends after table t (0: none left);
\* Labs, Diagnostics, Medications and Revenue are appended only "if not df.empty"
NextTable(t) ==
  LET later == {j \in (t+1)..Len(HistTables) : j <= 2 \/ HistTables[j] \notin dfEmpty}
  IN IF later = {} THEN 0 ELSE CHOOSE j \in later : \A k \in later : j <= k

\* ------------------------------------------------------------------------
\* app.py: the control panel's POST /controls, one request at a time

\* action == "start"
ControlsStart ==
  /\ IdleLike(pc[FG])
  /\ liveRunning \/ nThreads < threadCap
  /\ Jump(FG, "start_called")
  /\ UNCHANGED <<ctl, loc, run, stopSeen, added, upAdded, generated, saved, appended>>
  /\ UNCHANGED aux

\* start_live_simulation without its "if _live_running: return"
StartLiveSimulationUnguarded ==
  /\ pc[FG] = "start_called"
  /\ IF nThreads >= threadCap
     THEN /\ Jump(FG, "idle")
          /\ UNCHANGED <<ctl, loc>>
     ELSE /\ liveRunning' = TRUE
          /\ nThreads' = nThreads + 1
          /\ liveThread' = nThreads + 1
          /\ pc' = [pc EXCEPT ![FG] = "start_log", ![nThreads + 1] = "w_init"]
          /\ UNCHANGED <<status, logged, died, histSteps, faultsLeft, loc>>
  /\ UNCHANGED <<run, stopSeen, added, upAdded, generated, saved, appended>>
  /\ UNCHANGED aux

\* start_live_simulation up to _live_thread.start()
StartLiveSimulation ==
  /\ pc[FG] = "start_called"
  /\ IF liveRunning
     THEN /\ Jump(FG, "idle")
          /\ UNCHANGED <<ctl, loc>>
     ELSE /\ liveRunning' = TRUE
          /\ nThreads' = nThreads + 1
          /\ liveThread' = nThreads + 1
          /\ pc' = [pc EXCEPT ![FG] = "start_log", ![nThreads + 1] = "w_init"]
          /\ UNCHANGED <<status, logged, died, histSteps, faultsLeft, loc>>
  /\ UNCHANGED <<run, stopSeen, added, upAdded, generated, saved, appended>>
  /\ UNCHANGED aux

\* _append_log("Live simulation started")
StartLog ==
  /\ pc[FG] = "start_log"
  /\ \E ok \in May("status") : AppendLog(FG, "Live simulation started", "idle", ok)
  /\ UNCHANGED <<ctl, loc, run, stopSeen, added, upAdded, generated, saved, appended>>
  /\ UNCHANGED aux

\* action == "stop": stop_live_simulation clears the flag
StopLiveSimulation ==
  /\ IdleLike(pc[FG])
  /\ liveRunning' = FALSE
  /\ stopSeen' = [w \in Ctx |-> stopSeen[w] \/ (w # FG /\ Alive(w))]
  /\ Jump(FG, "stop_log")
  /\ UNCHANGED <<liveThread, nThreads, loc, run, added, upAdded, generated, saved, appended>>
  /\ UNCHANGED aux

\* _append_log("Live simulation stopping...")
StopLog ==
  /\ pc[FG] = "stop_log"
  /\ \E ok \in May("status") : AppendLog(FG, "Live simulation stopping...", "idle", ok)
  /\ UNCHANGED <<ctl, loc, run, stopSeen, added, upAdded, generated, saved, appended>>
  /\ UNCHANGED aux

\* action == "generate": a new historic request begins
ControlsGenerate ==
  /\ IdleLike(pc[FG])
  /\ runsLeft > 0
  /\ runsLeft' = runsLeft - 1
  /\ pc' = [pc EXCEPT ![FG] = "gen_called"]
  /\ died' = [died EXCEPT ![FG] = NoDeath]
  /\ histSteps' = <<>>
  /\ generated' = {}
  /\ saved' = {}
  /\ appended' = [appended EXCEPT ![FG] = FALSE]
  /\ dfEmpty' = {}
  /\ engine' = [engine EXCEPT ![FG] = "unset"]
  /\ UNCHANGED <<ctl, stage, fidx, rd, batch, numPatients, adlsEnabled, faults, faultsLeft,
                 threadCap, batchCap, status, logged, stopSeen, added, upAdded>>
  /\ UNCHANGED aux

\* num_patients = int(request.form.get("num_patients", 5000)), then the call
ParseCount ==
  /\ pc[FG] = "gen_called"
  /\ \E numeric \in May("param"), n \in 0..MaxPatients :
       IF numeric
       THEN /\ numPatients' = n
            /\ Jump(FG, "h_init")
       ELSE /\ Fail(FG, "param")
            /\ UNCHANGED numPatients
  /\ UNCHANGED <<ctl, loc, dfEmpty, adlsEnabled, faults, threadCap, runsLeft, batchCap, stopSeen,
                 added, upAdded, generated, saved, appended>>
  /\ UNCHANGED aux


\* ------------------------------------------------------------------------
\* generate_historic_data

\* _write_status({"mode": "historic", "outdir": ..., "step": "init", "files_written": []})
HistInit ==
  /\ pc[FG] = "h_init"
  /\ \E ok \in May("status") :
       /\ WriteStatus(FG, [step |-> "init", files_written |-> {}], "h_startlog", ok)
       /\ added' = IF ok THEN {} ELSE added
  /\ UNCHANGED <<ctl, loc, run, stopSeen, upAdded, generated, saved, appended>>
  /\ UNCHANGED aux

\* _append_log("Starting historic data generation")
HistStartLog ==
  /\ pc[FG] = "h_startlog"
  /\ \E ok \in May("status") : AppendLog(FG, "Starting historic data generation", "h_parse", ok)
  /\ UNCHANGED <<ctl, loc, run, stopSeen, added, upAdded, generated, saved, appended>>
  /\ UNCHANGED aux

\* HistParseDates with the dates parsed only after the patients are generated
HistParseDatesLate ==
  /\ pc[FG] = "h_parse"
  /\ \E wellFormed \in May("param") :
       IF wellFormed
       THEN /\ Jump(FG, "h_step")
            /\ stage' = [stage EXCEPT ![FG] = 1]
            /\ UNCHANGED generated
       ELSE /\ Fail(FG, "param")
            /\ generated' = generated \cup {"patients"}
            /\ UNCHANGED stage
  /\ UNCHANGED <<ctl, fidx, rd, engine, batch, run, stopSeen, added, upAdded, saved, appended>>
  /\ UNCHANGED aux

\* the two datetime.strptime calls; wellFormed = FALSE: one of them raises ValueError
HistParseDates ==
  /\ pc[FG] = "h_parse"
  /\ \E wellFormed \in May("param") :
       IF wellFormed
       THEN /\ Jump(FG, "h_step")
            /\ stage' = [stage EXCEPT ![FG] = 1]
       ELSE /\ Fail(FG, "param")
            /\ UNCHANGED stage
  /\ UNCHANGED <<ctl, fidx, rd, engine, batch, run, stopSeen, added, upAdded, generated,
                 saved, appended>>
  /\ UNCHANGED aux

\* HistStep with the stage name taken one position too early
HistStepOffByOne ==
  /\ pc[FG] = "h_step"
  /\ \E ok \in May("status") : WriteStatus(FG, [step |-> StepOrder[stage[FG]]], "sd_files", ok)
  /\ UNCHANGED <<ctl, loc, run, stopSeen, added, upAdded, generated, saved, appended>>
  /\ UNCHANGED aux

\* _write_status({"step": <entity set>}) opening each of the seven generation stages
HistStep ==
  /\ pc[FG] = "h_step"
  /\ \E ok \in May("status") : WriteStatus(FG, [step |-> HistStages[stage[FG]]], "sd_files", ok)
  /\ UNCHANGED <<ctl, loc, run, stopSeen, added, upAdded, generated, saved, appended>>
  /\ UNCHANGED aux

\* HistDbStep without its status update
HistDbStepSilent ==
  /\ pc[FG] = "h_dbstep"
  /\ Jump(FG, "ge_connect")
  /\ UNCHANGED <<ctl, loc, run, stopSeen, added, upAdded, generated, saved, appended>>
  /\ UNCHANGED aux

\* _write_status({"step": "db_write"})
HistDbStep ==
  /\ pc[FG] = "h_dbstep"
  /\ \E ok \in May("status") : WriteStatus(FG, [step |-> "db_write"], "ge_connect", ok)
  /\ UNCHANGED <<ctl, loc, run, stopSeen, added, upAdded, generated, saved, appended>>
  /\ UNCHANGED aux

\* df.to_sql(<table>, if_exists="append") inside the try of the db_write stage
HistToSql ==
  /\ pc[FG] = "h_tosql"
  /\ appended' = [appended EXCEPT ![FG] = TRUE]
  /\ \E ok \in May("db") : IF ok THEN Jump(FG, "h_tolog") ELSE Fail(FG, "db")
  /\ UNCHANGED <<ctl, loc, run, stopSeen, added, upAdded, generated, saved>>
  /\ UNCHANGED aux

\* _append_log("Inserted n rows into table ..."), then the next non-empty table
HistToLog ==
  /\ pc[FG] = "h_tolog"
  /\ LET t == NextTable(stage[FG]) IN
       \E ok \in May("status") :
         /\ AppendLog(FG, "Inserted rows", IF t = 0 THEN "h_dbok" ELSE "h_tosql", ok)
         /\ stage' = [stage EXCEPT ![FG] = IF ok THEN t ELSE @]
  /\ UNCHANGED <<ctl, fidx, rd, engine, batch, run, stopSeen, added, upAdded, generated,
                 saved, appended>>
  /\ UNCHANGED aux

\* _write_status({"db_write_ok": True})
HistDbOk ==
  /\ pc[FG] = "h_dbok"
  /\ \E ok \in May("status") : WriteStatus(FG, [db_write_ok |-> "yes"], "h_final", ok)
  /\ UNCHANGED <<ctl, loc, run, stopSeen, added, upAdded, generated, saved, appended>>
  /\ UNCHANGED aux

\* except Exception: _append_log("DB write failed: ...")
HistDbFailLog ==
  /\ pc[FG] = "h_dbfaillog"
  /\ \E ok \in May("status") : AppendLog(FG, "DB write failed", "h_dbfailwrite", ok)
  /\ UNCHANGED <<ctl, loc, run, stopSeen, added, upAdded, generated, saved, appended>>
  /\ UNCHANGED aux

\* _write_status({"db_write_ok": False, "db_write_error": ...})
HistDbFailWrite ==
  /\ pc[FG] = "h_dbfailwrite"
  /\ \E ok \in May("status") : WriteStatus(FG, [db_write_ok |-> "no"], "h_final", ok)
  /\ UNCHANGED <<ctl, loc, run, stopSeen, added, upAdded, generated, saved, appended>>
  /\ UNCHANGED aux

\* the final _write_status: step "done" and the entity counts
HistFinal ==
  /\ pc[FG] = "h_final"
  /\ \E ok \in May("status") :
       WriteStatus(FG, [step |-> "done", patients |-> numPatients,
                        admissions |-> numPatients * AdmissionsPerPatient,
                        revenue_rows |-> numPatients * AdmissionsPerPatient],
                   "h_donelog", ok)
  /\ UNCHANGED <<ctl, loc, run, stopSeen, added, upAdded, generated, saved, appended>>
  /\ UNCHANGED aux

\* _append_log("Historic data generation completed"), then return
HistDoneLog ==
  /\ pc[FG] = "h_donelog"
  /\ \E ok \in May("status") : AppendLog(FG, "Historic data generation completed", "done", ok)
  /\ UNCHANGED <<ctl, loc, run, stopSeen, added, upAdded, generated, saved, appended>>
  /\ UNCHANGED aux

\* ------------------------------------------------------------------------
\* save_dataframe, called by the historic run and by a live tick

\* The records of the entity set are generated and df.to_csv / to_json /
\* to_parquet write its three files; ok = FALSE: one of the writes raises.
\* A historic entity set is empty when num_patients = 0; diagnostics (one per
\* admission with probability 0.70) may also be empty otherwise.
SaveFiles(c) ==
  /\ pc[c] \in {"sd_files"}
  /\ \E ok \in May("file"), noDiag \in BOOLEAN :
       /\ IF ok THEN Jump(c, "sd_log") ELSE Fail(c, "file")
       /\ IF c = FG
          THEN /\ generated' = generated \cup {SaveName(c)}
               /\ saved' = IF ok THEN saved \cup {SaveName(c)} ELSE saved
               /\ dfEmpty' = IF numPatients = 0 \/ (SaveName(c) = "diagnostics" /\ noDiag)
                             THEN dfEmpty \cup {SaveName(c)} ELSE dfEmpty
          ELSE UNCHANGED <<generated, saved, dfEmpty>>
  /\ UNCHANGED <<ctl, loc, numPatients, adlsEnabled, faults, threadCap, runsLeft, batchCap,
                 stopSeen,
                 added, upAdded, appended>>
  /\ UNCHANGED aux

\* _append_log("Saved <name> ...")
SaveLog(c) ==
  /\ pc[c] = "sd_log"
  /\ \E ok \in May("status") : AppendLog(c, "Saved", "sd_read", ok)
  /\ UNCHANGED <<ctl, loc, run, stopSeen, added, upAdded, generated, saved, appended>>
  /\ UNCHANGED aux

\* _read_status().get("files_written", []): the argument of the _write_status
\* call of line 179 is evaluated before the call, outside the lock
SaveRead(c) ==
  /\ pc[c] = "sd_read"
  /\ rd' = [rd EXCEPT ![c] = status.files_written]
  /\ Jump(c, "sd_write")
  /\ UNCHANGED <<ctl, stage, fidx, engine, batch, run, stopSeen, added, upAdded, generated,
                 saved, appended>>
  /\ UNCHANGED aux

\* _write_status({"files_written": <the list read> + files}); then the uploads
\* "if _adls_enabled()", else return
SaveWrite(c) ==
  /\ pc[c] = "sd_write"
  /\ \E ok \in May("status") :
       /\ WriteStatus(c, [files_written |-> rd[c] \cup Files(c)],
                      IF adlsEnabled THEN "up_client" ELSE AfterSavePc(c), ok)
       /\ added' = IF ok THEN added \cup Files(c) ELSE added
       /\ fidx' = [fidx EXCEPT ![c] = IF ok /\ adlsEnabled THEN 1 ELSE 0]
       /\ stage' = [stage EXCEPT ![c] = IF ok /\ ~adlsEnabled THEN AfterSaveStage(c) ELSE @]
  /\ rd' = [rd EXCEPT ![c] = {}]
  /\ UNCHANGED <<ctl, engine, batch, run, stopSeen, upAdded, generated, saved, appended>>
  /\ UNCHANGED aux


\* ------------------------------------------------------------------------
\* _upload_path_to_adls, called by save_dataframe for each of the three files

\* the file being uploaded
UploadFile(c) == <<SaveName(c), SaveBatch(c), fidx[c]>>

\* "for f in files": the next file, or the return of save_dataframe
NextUploadPc(c) == IF fidx[c] < NumEncodings THEN "up_client" ELSE AfterSavePc(c)
NextUploadFidx(c) == IF fidx[c] < NumEncodings THEN fidx[c] + 1 ELSE 0
NextUploadStage(c) == IF fidx[c] < NumEncodings THEN stage[c] ELSE AfterSaveStage(c)

\* container_client = _get_adls_container_client(); "if container_client is
\* None: return". The client comes from the storage collaborator: it is
\* there or it is not.
UploadClient(c) ==
  /\ pc[c] = "up_client"
  /\ \E client \in May("upload") :
       /\ pc' = [pc EXCEPT ![c] = IF client THEN "up_blob" ELSE NextUploadPc(c)]
       /\ faultsLeft' = IF client THEN faultsLeft ELSE faultsLeft - 1
       /\ UNCHANGED <<status, logged, died, histSteps>>
       /\ fidx' = [fidx EXCEPT ![c] = IF client THEN @ ELSE NextUploadFidx(c)]
       /\ stage' = [stage EXCEPT ![c] = IF client THEN @ ELSE NextUploadStage(c)]
  /\ UNCHANGED <<ctl, rd, engine, batch, run, stopSeen, added, upAdded, generated, saved,
                 appended>>
  /\ UNCHANGED aux

\* blob_client.upload_blob(fh, overwrite=True)
UploadBlob(c) ==
  /\ pc[c] = "up_blob"
  /\ \E ok \in May("upload") : IF ok THEN Jump(c, "up_oklog") ELSE Fail(c, "upload")
  /\ UNCHANGED <<ctl, loc, run, stopSeen, added, upAdded, generated, saved, appended>>
  /\ UNCHANGED aux

\* _append_log("ADLS uploaded: ...")
UploadLog(c) ==
  /\ pc[c] = "up_oklog"
  /\ \E ok \in May("status") : AppendLog(c, "ADLS uploaded", "up_read", ok)
  /\ UNCHANGED <<ctl, loc, run, stopSeen, added, upAdded, generated, saved, appended>>
  /\ UNCHANGED aux

\* status = _read_status(); uploaded = status.get("adls_uploaded", [])
UploadRead(c) ==
  /\ pc[c] = "up_read"
  /\ rd' = [rd EXCEPT ![c] = status.adls_uploaded]
  /\ Jump(c, "up_write")
  /\ UNCHANGED <<ctl, stage, fidx, engine, batch, run, stopSeen, added, upAdded, generated,
                 saved, appended>>
  /\ UNCHANGED aux

\* uploaded.append(local_path); _write_status({"adls_uploaded": uploaded})
UploadWrite(c) ==
  /\ pc[c] = "up_write"
  /\ \E ok \in May("status") :
       /\ WriteStatus(c, [adls_uploaded |-> rd[c] \cup {UploadFile(c)}], NextUploadPc(c), ok)
       /\ upAdded' = IF ok THEN upAdded \cup {UploadFile(c)} ELSE upAdded
       /\ fidx' = [fidx EXCEPT ![c] = IF ok THEN NextUploadFidx(c) ELSE @]
       /\ stage' = [stage EXCEPT ![c] = IF ok THEN NextUploadStage(c) ELSE @]
  /\ rd' = [rd EXCEPT ![c] = {}]
  /\ UNCHANGED <<ctl, engine, batch, run, stopSeen, added, generated, saved, appended>>
  /\ UNCHANGED aux

\* except Exception: _append_log("ADLS upload failed for ...")
UploadFailLog(c) ==
  /\ pc[c] = "up_faillog"
  /\ \E ok \in May("status") :
       /\ AppendLog(c, "ADLS upload failed", NextUploadPc(c), ok)
       /\ fidx' = [fidx EXCEPT ![c] = IF ok THEN NextUploadFidx(c) ELSE @]
       /\ stage' = [stage EXCEPT ![c] = IF ok THEN NextUploadStage(c) ELSE @]
  /\ UNCHANGED <<ctl, rd, engine, batch, run, stopSeen, added, upAdded, generated, saved,
                 appended>>
  /\ UNCHANGED aux

\* ------------------------------------------------------------------------
\* _get_engine, called by the historic run and once by each live worker

\* create_engine, engine.connect(), SELECT 1; up = FALSE: the database is unreachable
EngineConnect(c) ==
  /\ pc[c] = "ge_connect"
  /\ \E up \in May("db") : IF up THEN Jump(c, "ge_oklog") ELSE Fail(c, "db")
  /\ UNCHANGED <<ctl, loc, run, stopSeen, added, upAdded, generated, saved, appended>>
  /\ UNCHANGED aux

\* _append_log("Connected to database: ...")
EngineOkLog(c) ==
  /\ pc[c] = "ge_oklog"
  /\ \E ok \in May("status") : AppendLog(c, "Connected to database", "ge_okwrite", ok)
  /\ UNCHANGED <<ctl, loc, run, stopSeen, added, upAdded, generated, saved, appended>>
  /\ UNCHANGED aux

\* _write_status({"db_url": db_url, "db_connected": True}); return engine
EngineOkWrite(c) ==
  /\ pc[c] = "ge_okwrite"
  /\ \E ok \in May("status") :
       /\ WriteStatus(c, [db_connected |-> "yes"], AfterEnginePc(c, "ok"), ok)
       /\ engine' = [engine EXCEPT ![c] = IF ok THEN "ok" ELSE @]
       /\ stage' = [stage EXCEPT ![c] = IF ok THEN AfterEngineStage(c, "ok") ELSE @]
  /\ UNCHANGED <<ctl, fidx, rd, batch, run, stopSeen, added, upAdded, generated, saved,
                 appended>>
  /\ UNCHANGED aux

\* except Exception: _append_log("Database connection failed: ...")
EngineFailLog(c) ==
  /\ pc[c] = "ge_faillog"
  /\ \E ok \in May("status") : AppendLog(c, "Database connection failed", "ge_failwrite", ok)
  /\ UNCHANGED <<ctl, loc, run, stopSeen, added, upAdded, generated, saved, appended>>
  /\ UNCHANGED aux

\* _write_status({"db_url": ..., "db_connected": False, "db_error": str(exc)}); return None
EngineFailWrite(c) ==
  /\ pc[c] = "ge_failwrite"
  /\ \E ok \in May("status") :
       /\ WriteStatus(c, [db_connected |-> "no", db_error |-> TRUE],
                      AfterEnginePc(c, "none"), ok)
       /\ engine' = [engine EXCEPT ![c] = IF ok THEN "none" ELSE @]
       /\ stage' = [stage EXCEPT ![c] = IF ok THEN AfterEngineStage(c, "none") ELSE @]
  /\ UNCHANGED <<ctl, fidx, rd, batch, run, stopSeen, added, upAdded, generated, saved,
                 appended>>
  /\ UNCHANGED aux

\* ------------------------------------------------------------------------
\* _live_loop, the body of each thread created by start_live_simulation

\* _write_status({"mode": "live", "outdir": outdir, "step": "tick_init"})
LiveInit(w) ==
  /\ pc[w] = "w_init"
  /\ \E ok \in May("status") : WriteStatus(w, [step |-> "tick_init"], "ge_connect", ok)
  /\ UNCHANGED <<ctl, loc, run, stopSeen, added, upAdded, generated, saved, appended>>
  /\ UNCHANGED aux

\* while _live_running: batch += 1
LiveCheck(w) ==
  /\ pc[w] = "w_check"
  /\ IF liveRunning
     THEN /\ batch[w] < batchCap
          /\ batch' = [batch EXCEPT ![w] = @ + 1]
          /\ Jump(w, "w_tick_status")
     ELSE /\ Jump(w, "exited")
          /\ UNCHANGED batch
  /\ UNCHANGED <<ctl, stage, fidx, rd, engine, run, stopSeen, added, upAdded, generated,
                 saved, appended>>
  /\ UNCHANGED aux

\* _write_status({"step": "tick", "batch": batch})
LiveTickStatus(w) ==
  /\ pc[w] = "w_tick_status"
  /\ \E ok \in May("status") : WriteStatus(w, [step |-> "tick"], "w_tick_log", ok)
  /\ UNCHANGED <<ctl, loc, run, stopSeen, added, upAdded, generated, saved, appended>>
  /\ UNCHANGED aux

\* _append_log("Live simulation tick n: generating data..."), then the try block
LiveTickLog(w) ==
  /\ pc[w] = "w_tick_log"
  /\ \E ok \in May("status") :
       /\ AppendLog(w, "Live simulation tick", "sd_files", ok)
       /\ stage' = [stage EXCEPT ![w] = IF ok THEN 1 ELSE @]
  /\ UNCHANGED <<ctl, fidx, rd, engine, batch, run, stopSeen, added, upAdded, generated,
                 saved, appended>>
  /\ UNCHANGED aux

\* "if engine is not None": df_live_patients.to_sql, then df_live_admissions.to_sql
LiveToSql(w) ==
  /\ pc[w] = "w_tosql"
  /\ appended' = [appended EXCEPT ![w] = TRUE]
  /\ \E ok \in May("db") :
       IF ok
       THEN /\ Jump(w, IF stage[w] < Len(LiveTables) THEN "w_tosql" ELSE "w_dblog")
            /\ stage' = [stage EXCEPT ![w] = IF @ < Len(LiveTables) THEN @ + 1 ELSE 0]
       ELSE /\ Fail(w, "db")
            /\ UNCHANGED stage
  /\ UNCHANGED <<ctl, fidx, rd, engine, batch, run, stopSeen, added, upAdded, generated,
                 saved>>
  /\ UNCHANGED aux

\* _append_log("Live batch n: inserted patients=..., admissions=...")
LiveDbLog(w) ==
  /\ pc[w] = "w_dblog"
  /\ \E ok \in May("status") : AppendLog(w, "Live batch inserted", "w_counts", ok)
  /\ UNCHANGED <<ctl, loc, run, stopSeen, added, upAdded, generated, saved, appended>>
  /\ UNCHANGED aux

\* except Exception: _append_log("Live DB write failed (batch n): ...")
LiveDbFailLog(w) ==
  /\ pc[w] = "w_dbfaillog"
  /\ \E ok \in May("status") : AppendLog(w, "Live DB write failed", "w_counts", ok)
  /\ UNCHANGED <<ctl, loc, run, stopSeen, added, upAdded, generated, saved, appended>>
  /\ UNCHANGED aux

\* _write_status({"last_live_counts": {...}})
LiveCounts(w) ==
  /\ pc[w] = "w_counts"
  /\ \E ok \in May("status") : WriteStatus(w, [last_live_counts |-> TRUE], "w_sleep", ok)
  /\ UNCHANGED <<ctl, loc, run, stopSeen, added, upAdded, generated, saved, appended>>
  /\ UNCHANGED aux

\* except Exception: _append_log("Live tick error: ...")
LiveErrLog(w) ==
  /\ pc[w] = "w_errlog"
  /\ \E ok \in May("status") : AppendLog(w, "Live tick error", "w_sleep", ok)
  /\ UNCHANGED <<ctl, loc, run, stopSeen, added, upAdded, generated, saved, appended>>
  /\ UNCHANGED aux

\* time.sleep(5)
LiveSleep(w) ==
  /\ pc[w] = "w_sleep"
  /\ Jump(w, "w_check")
  /\ UNCHANGED <<ctl, loc, run, stopSeen, added, upAdded, generated, saved, appended>>
  /\ UNCHANGED aux

\* ------------------------------------------------------------------------
\* specifications

Control == ControlsStart \/ StartLiveSimulation \/ StartLog \/ StopLiveSimulation \/ StopLog

Historic ==
  \/ ControlsGenerate \/ ParseCount \/ HistInit \/ HistStartLog \/ HistParseDates
  \/ HistStep \/ HistDbStep \/ HistToSql \/ HistToLog \/ HistDbOk \/ HistDbFailLog
  \/ HistDbFailWrite \/ HistFinal \/ HistDoneLog

Shared(c) ==
  \/ SaveFiles(c) \/ SaveLog(c) \/ SaveRead(c) \/ SaveWrite(c)
  \/ EngineConnect(c) \/ EngineOkLog(c) \/ EngineOkWrite(c) \/ EngineFailLog(c)
  \/ EngineFailWrite(c)

Upload(c) ==
  \/ UploadClient(c) \/ UploadBlob(c) \/ UploadLog(c) \/ UploadRead(c) \/ UploadWrite(c)
  \/ UploadFailLog(c)

Live(w) ==
  \/ LiveInit(w) \/ LiveCheck(w) \/ LiveTickStatus(w) \/ LiveTickLog(w) \/ LiveToSql(w)
  \/ LiveDbLog(w) \/ LiveDbFailLog(w) \/ LiveCounts(w) \/ LiveErrLog(w) \/ LiveSleep(w)

\* every action of the orchestration
Next ==
  \/ Control
  \/ Historic
  \/ \E c \in Ctx : Shared(c) \/ Upload(c)
  \/ \E w \in Workers : Live(w)

\* The two execution contexts together: the operator starts one live worker
\* and makes one historic request; the database may fail.
NextShared ==
  \/ Control
  \/ Historic
  \/ \E c \in Ctx : Shared(c)
  \/ \E w \in Workers : Live(w)

Init == InitWith({"db", "file"}, MaxFaults, {FALSE}, 1, 1, 1) /\ AuxIdle

Spec == Init /\ [][NextShared]_vars

\* The live simulation alone: start and stop requests and up to MaxWorkers
\* threads, each followed through MaxBatch ticks.
NextLive ==
  \/ Control
  \/ \E w \in Workers : Shared(w) \/ Live(w)

InitLive ==
  InitWith({"status", "db", "file"}, MaxFaults, {FALSE}, MaxWorkers, 0, MaxBatch) /\ AuxIdle

SpecLive == InitLive /\ [][NextLive]_vars

\* Historic requests alone, one after the other, with or without ADLS uploads
\* and with every kind of failure.
NextHistoric ==
  \/ Historic
  \/ Shared(FG) \/ Upload(FG)

InitHistoric == InitWith(FaultKinds, MaxFaults, BOOLEAN, 0, MaxRuns, 0) /\ AuxIdle

SpecHistoric == InitHistoric /\ [][NextHistoric]_vars

\* ------------------------------------------------------------------------
\* weighted_choice (nested in generate_historic_data)

RECURSIVE SumWeights(_)
\* sum(weights)
SumWeights(opts) ==
  IF opts = <<>> THEN 0 ELSE opts[1][2] + SumWeights(Tail(opts))

RECURSIVE WcLoopStrict(_, _, _, _)
\* the loop with "upto + weight > r"
WcLoopStrict(opts, r, i, upto) ==
  IF i > Len(opts) THEN opts[Len(opts)][1]
  ELSE IF upto + opts[i][2] > r THEN opts[i][1]
  ELSE WcLoopStrict(opts, r, i + 1, upto + opts[i][2])

RECURSIVE WcLoop(_, _, _, _)
\* "for option, weight in options_with_weights" from its i-th pair on, and the
\* "return options[-1]" after it
WcLoop(opts, r, i, upto) ==
  IF i > Len(opts) THEN opts[Len(opts)][1]
  ELSE IF upto + opts[i][2] >= r THEN opts[i][1]
  ELSE WcLoop(opts, r, i + 1, upto + opts[i][2])

\* weighted_choice(options_with_weights) when random.uniform draws r
WeightedChoice(opts, r) == WcLoop(opts, r, 1, 0)

\* the non-empty lists of (item, weight) pairs the sampler is tried on
OptionLists ==
  UNION {[1..n -> (1..2) \X (1..MaxWeight)] : n \in 1..MaxOptions}

\* one call of weighted_choice
CallWeightedChoice ==
  /\ wcResult = 0
  /\ wcResult' = WeightedChoice(wcOptions, wcR)
  /\ UNCHANGED <<wcOptions, wcR, prog, gen, logv, outv, sfv>>

InitSampler ==
  /\ ProgIdle /\ GenIdle /\ LogIdle /\ IoIdle
  /\ wcOptions \in OptionLists
  /\ wcR \in 0..SumWeights(wcOptions)
  /\ wcResult = 0

NextSampler == CallWeightedChoice

SpecSampler == InitSampler /\ [][NextSampler]_vars

\* ------------------------------------------------------------------------
\* the records of one generation: generate_historic_data's lists, or the
\* lists of one tick of _live_loop. Dates are day numbers. Of every record
\* the fields kept are its ids, its dates and what Occupancy and Revenue
\* read; names, contact details and outcome are drawn independently and
\* read by nothing. Of each catalog the first entries are kept (of the
\* diagnostics catalog also one entry that has no rate).

Departments == <<"Internal Medicine", "General Surgery", "Pediatrics">>
LiveDepartments == <<"Medicine", "Surgery", "Pediatrics">>
WardTypes == <<"General", "Semi-private", "Private", "Executive", "ICU">>
WardRate ==
  [w \in {"General", "Semi-private", "Private", "Executive", "ICU"} |->
     CASE w = "General" -> 4500
       [] w = "Semi-private" -> 6000
       [] w = "Private" -> 7500
       [] w = "Executive" -> 10000
       [] w = "ICU" -> 18000]
Panels == <<"IGI Life", "TPL Life", "EFU Allianz">>
\* (name, weight in hundredths)
LabCatalog == <<<<"CBC", 15>>, <<"LFT", 8>>, <<"KFT", 8>>>>
LabRate == [t \in {"CBC", "LFT", "KFT"} |-> IF t = "CBC" THEN 600 ELSE 1200]
DiagCatalog == <<<<"X-Ray", 25>>, <<"Ultrasound", 20>>, <<"CT Scan", 10>>, <<"Stress Test", 3>>>>
DiagRate ==
  [m \in {"X-Ray", "Ultrasound", "CT Scan"} |->
     CASE m = "X-Ray" -> 1200 [] m = "Ultrasound" -> 2500 [] m = "CT Scan" -> 7000]
\* (drug, unit price)
MedCatalog == <<<<"Paracetamol 500mg", 12>>, <<"Amoxicillin 500mg", 35>>,
               <<"Ceftriaxone 1g", 180>>>>

\* dict.get(key, default)
Get(d, key, default) == IF key \in DOMAIN d THEN d[key] ELSE default
\* max(0, x)
Max0(x) == IF x > 0 THEN x ELSE 0
\* "x or 1" on an int
Or1(x) == IF x = 0 THEN 1 ELSE x
Elems(seq) == {seq[i] : i \in DOMAIN seq}
\* 1 when a random draw differs from the first value of its range
Cost(x, first) == IF x = first THEN 0 ELSE 1
\* a generation step that makes draws costing c
Spend(c) == c <= drawsLeft /\ drawsLeft' = drawsLeft - c

\* num_admissions = num_patients * 2
NumAdmissionsTwo(n) == n * 2

\* num_admissions = num_patients * 3
NumAdmissions(n) == n * AdmissionsPerPatient

\* random.choice(panels) whether or not is_panel
PanelNameAlways(isPanel, choice) == choice

\* random.choice(panels) if is_panel else None
PanelName(isPanel, choice) == IF isPanel THEN choice ELSE "None"

\* a list of ids one longer than the patients list
PatientIdsOneMore(ps) ==
  {ps[i].patient_id : i \in DOMAIN ps} \cup {<<"P", Len(ps) + 1>>}

\* df_patients["patient_id"].tolist()
PatientIds(ps) == {ps[i].patient_id : i \in DOMAIN ps}

\* fake.random_int(0, 12)
HistLosDrawsFromZero == 0..HistMaxLos

\* fake.random_int(1, 12)
HistLosDraws == 1..HistMaxLos

\* fake.random_int(1, 10)
LiveLosDraws == 1..LiveMaxLos

\* random.randint(0, (discharge_dt - admit_dt).days + 1)
DayOffsetsOneMore(adm) == 0..(adm.discharge_dt - adm.admit_dt + 1)

\* random.randint(0, max(0, (adm["discharge_dt"] - adm["admit_dt"]).days))
DayOffsets(adm) == 0..Max0(adm.discharge_dt - adm.admit_dt)

\* for i in range(num_patients): patients.append({...})
GenPatient ==
  /\ dpc = "patients"
  /\ Len(patients) < req.n
  /\ \E isPanel \in BOOLEAN, choice \in Elems(Panels) :
       /\ Spend(Cost(isPanel, FALSE) + Cost(choice, Panels[1]))
       /\ patients' = Append(patients,
            [patient_id |-> <<"P", Len(patients) + 1>>,
             panel |-> isPanel,
             panel_name |-> PanelName(isPanel, choice)])
  /\ UNCHANGED <<dpc, req, loop, admissions, labs, diagnostics, meds, occRows, occupancy,
                 revenue, counts, prog, logv, smp, outv, sfv>>

\* df_patients = pd.DataFrame(patients); save_dataframe(...)
PatientsSaved ==
  /\ dpc = "patients"
  /\ Len(patients) = req.n
  /\ dpc' = "admissions"
  /\ UNCHANGED <<req, loop, patients, admissions, labs, diagnostics, meds, occRows,
                 occupancy, revenue, counts, drawsLeft, prog, logv, smp, outv, sfv>>

\* for i in range(num_admissions): admissions.append({...})
GenAdmission ==
  /\ dpc = "admissions"
  /\ Len(admissions) < NumAdmissions(req.n)
  /\ \E admit \in req.start..req.end, los \in HistLosDraws, ward \in Elems(WardTypes),
        pid \in PatientIds(patients), dept \in Elems(Departments) :
       /\ Spend(Cost(admit, req.start) + Cost(los, 1) + Cost(ward, WardTypes[1])
                + Cost(pid, <<"P", 1>>) + Cost(dept, Departments[1]))
       /\ admissions' = Append(admissions,
            [admission_id |-> <<"A", Len(admissions) + 1>>,
             patient_id |-> pid,
             admit_dt |-> admit,
             discharge_dt |-> admit + los,
             department |-> dept,
             ward_type |-> ward])
  /\ UNCHANGED <<dpc, req, loop, patients, labs, diagnostics, meds, occRows, occupancy,
                 revenue, counts, prog, logv, smp, outv, sfv>>

\* df_admissions = pd.DataFrame(admissions); save_dataframe(...)
AdmissionsSaved ==
  /\ dpc = "admissions"
  /\ Len(admissions) = NumAdmissions(req.n)
  /\ dpc' = "labs"
  /\ loop' = [i |-> 1, k |-> 0, j |-> 0]
  /\ UNCHANGED <<req, patients, admissions, labs, diagnostics, meds, occRows, occupancy,
                 revenue, counts, drawsLeft, prog, logv, smp, outv, sfv>>

\* the loop state after the j-th of k records of admission i
AfterRecord(k) ==
  IF loop.j + 1 = k THEN [i |-> loop.i + 1, k |-> 0, j |-> 0]
  ELSE [i |-> loop.i, k |-> k, j |-> loop.j + 1]

\* for i, adm in enumerate(admissions): k = max(1, int(random.gauss(2.0, 0.8)));
\* for j in range(k): labs.append({...})
GenLab ==
  /\ dpc = "labs"
  /\ loop.i <= Len(admissions)
  /\ LET adm == admissions[loop.i]
     IN \E k \in (IF loop.j = 0 THEN 1..MaxLabs ELSE {loop.k}),
           r \in 0..SumWeights(LabCatalog), off \in DayOffsets(adm) :
          /\ Spend((IF loop.j = 0 THEN Cost(k, 1) ELSE 0) + Cost(r, 0) + Cost(off, 0))
          /\ labs' = Append(labs,
               [lab_id |-> <<"L", loop.i, loop.j + 1>>,
                admission_id |-> adm.admission_id,
                patient_id |-> adm.patient_id,
                test_name |-> WeightedChoice(LabCatalog, r),
                ordered_dt |-> adm.admit_dt + off,
                price_pkr |-> Get(LabRate, WeightedChoice(LabCatalog, r), DefaultLabPrice)])
          /\ loop' = AfterRecord(k)
  /\ UNCHANGED <<dpc, req, patients, admissions, diagnostics, meds, occRows, occupancy,
                 revenue, counts, prog, logv, smp, outv, sfv>>

\* df_labs = pd.DataFrame(labs); save_dataframe(...)
LabsSaved ==
  /\ dpc = "labs"
  /\ loop.i > Len(admissions)
  /\ dpc' = "diagnostics"
  /\ loop' = [i |-> 1, k |-> 0, j |-> 0]
  /\ UNCHANGED <<req, patients, admissions, labs, diagnostics, meds, occRows, occupancy,
                 revenue, counts, drawsLeft, prog, logv, smp, outv, sfv>>

\* for i, adm in enumerate(admissions): if random.random() < 0.70: diagnostics.append({...})
GenDiagnostic ==
  /\ dpc = "diagnostics"
  /\ loop.i <= Len(admissions)
  /\ LET adm == admissions[loop.i]
     IN \E done \in BOOLEAN, r \in 0..SumWeights(DiagCatalog), off \in DayOffsets(adm) :
          /\ Spend(Cost(done, TRUE) + (IF done THEN Cost(r, 0) + Cost(off, 0) ELSE 0))
          /\ ~done => (r = 0 /\ off = 0)
          /\ diagnostics' =
               IF done
               THEN Append(diagnostics,
                      [diagnostic_id |-> <<"D", loop.i>>,
                       admission_id |-> adm.admission_id,
                       patient_id |-> adm.patient_id,
                       modality |-> WeightedChoice(DiagCatalog, r),
                       performed_dt |-> adm.admit_dt + off,
                       price_pkr |-> Get(DiagRate, WeightedChoice(DiagCatalog, r),
                                         DefaultDiagPrice)])
               ELSE diagnostics
  /\ loop' = [loop EXCEPT !.i = loop.i + 1]
  /\ UNCHANGED <<dpc, req, patients, admissions, labs, meds, occRows, occupancy,
                 revenue, counts, prog, logv, smp, outv, sfv>>

\* df_diags = pd.DataFrame(diagnostics); save_dataframe(...)
DiagnosticsSaved ==
  /\ dpc = "diagnostics"
  /\ loop.i > Len(admissions)
  /\ dpc' = "medications"
  /\ loop' = [i |-> 1, k |-> 0, j |-> 0]
  /\ UNCHANGED <<req, patients, admissions, labs, diagnostics, meds, occRows, occupancy,
                 revenue, counts, drawsLeft, prog, logv, smp, outv, sfv>>

\* for i, adm in enumerate(admissions): k = 1 if random.random() < 0.5 else 2;
\* for j in range(k): meds.append({...})
GenMedication ==
  /\ dpc = "medications"
  /\ loop.i <= Len(admissions)
  /\ LET adm == admissions[loop.i]
     IN \E k \in (IF loop.j = 0 THEN 1..2 ELSE {loop.k}),
           drug \in Elems(MedCatalog), qty \in 1..MaxQty :
          /\ Spend((IF loop.j = 0 THEN Cost(k, 1) ELSE 0) + Cost(drug, MedCatalog[1])
                   + Cost(qty, 1))
          /\ meds' = Append(meds,
               [med_id |-> <<"M", loop.i, loop.j + 1>>,
                admission_id |-> adm.admission_id,
                patient_id |-> adm.patient_id,
                drug_name |-> drug[1],
                qty |-> qty,
                unit_price_pkr |-> drug[2],
                total_price_pkr |-> drug[2] * qty])
          /\ loop' = AfterRecord(k)
  /\ UNCHANGED <<dpc, req, patients, admissions, labs, diagnostics, occRows, occupancy,
                 revenue, counts, prog, logv, smp, outv, sfv>>

\* df_meds = pd.DataFrame(meds); save_dataframe(...)
MedicationsSaved ==
  /\ dpc = "medications"
  /\ loop.i > Len(admissions)
  /\ dpc' = "occupancy"
  /\ loop' = [i |-> 0, k |-> 0, j |-> 0]
  /\ UNCHANGED <<req, patients, admissions, labs, diagnostics, meds, occRows, occupancy,
                 revenue, counts, drawsLeft, prog, logv, smp, outv, sfv>>

\* one element of occ_rows
OccRow(adm, current) ==
  [date |-> current,
   department |-> adm.department,
   ward_type |-> Get(adm, "ward_type", "General"),
   admission_id |-> adm.admission_id,
   patient_id |-> adm.patient_id]

RECURSIVE OccLoopStrict(_, _)
\* the rows of "while current < adm["discharge_dt"]"
OccLoopStrict(adm, current) ==
  IF current < adm.discharge_dt
  THEN <<OccRow(adm, current)>> \o OccLoopStrict(adm, current + 1)
  ELSE <<>>

RECURSIVE OccLoop(_, _)
\* the rows "while current <= adm["discharge_dt"]" appends from current on
OccLoop(adm, current) ==
  IF current <= adm.discharge_dt
  THEN <<OccRow(adm, current)>> \o OccLoop(adm, current + 1)
  ELSE <<>>

RECURSIVE OccAll(_)
\* "for adm in admissions": occ_rows
OccAll(adms) ==
  IF adms = <<>> THEN <<>>
  ELSE OccLoop(adms[1], adms[1].admit_dt) \o OccAll(Tail(adms))

OccColumns == <<"date", "department", "ward_type", "beds_occupied">>

\* df.groupby(["date", "department", "ward_type"]).size().reset_index(name="beds_occupied")
GroupSize(rows) ==
  {[date |-> rows[i].date,
    department |-> rows[i].department,
    ward_type |-> rows[i].ward_type,
    beds_occupied |-> Cardinality({j \in DOMAIN rows :
                                     /\ rows[j].date = rows[i].date
                                     /\ rows[j].department = rows[i].department
                                     /\ rows[j].ward_type = rows[i].ward_type})]
     : i \in DOMAIN rows}

\* the occupancy stage: occ_rows, df_occupancy_agg, save_dataframe(...)
BuildOccupancy ==
  /\ dpc = "occupancy"
  /\ occRows' = OccAll(admissions)
  /\ occupancy' =
       IF OccAll(admissions) # <<>>
       THEN [columns |-> OccColumns, rows |-> GroupSize(OccAll(admissions))]
       ELSE [columns |-> OccColumns, rows |-> {}]
  /\ dpc' = "revenue"
  /\ UNCHANGED <<req, loop, patients, admissions, labs, diagnostics, meds, revenue, counts,
                 drawsLeft, prog, logv, smp, outv, sfv>>

RECURSIVE SumField(_, _, _)
\* sum of field over the records of recs that carry admission_id id
SumField(recs, id, field) ==
  IF recs = <<>> THEN 0
  ELSE (IF recs[1].admission_id = id THEN recs[1][field] ELSE 0)
       + SumField(Tail(recs), id, field)

\* df.groupby("admission_id")[field].sum() if not df.empty else {}
ByAdmission(recs, field) ==
  [id \in {recs[i].admission_id : i \in DOMAIN recs} |-> SumField(recs, id, field)]

\* an element of rev_rows whose total leaves out med_rev
RevenueRowNoPharmacy(adm, labsBy, diagsBy, medsBy) ==
  LET los == Or1(adm.discharge_dt - adm.admit_dt)
      ward == Get(adm, "ward_type", "General")
      room == Get(WardRate, ward, DefaultWardRate) * los
      lab == Get(labsBy, adm.admission_id, 0)
      diag == Get(diagsBy, adm.admission_id, 0)
      med == Get(medsBy, adm.admission_id, 0)
  IN [admission_id |-> adm.admission_id, patient_id |-> adm.patient_id,
      ward_type |-> ward, los_days |-> los, room_rev_pkr |-> room,
      lab_rev_pkr |-> lab, diag_rev_pkr |-> diag, pharmacy_rev_pkr |-> med,
      total_rev_pkr |-> room + lab + diag]

\* the element of rev_rows for adm. The three sums are floats of integer
\* prices: integers here.
RevenueRow(adm, labsBy, diagsBy, medsBy) ==
  LET los == Or1(adm.discharge_dt - adm.admit_dt)
      ward == Get(adm, "ward_type", "General")
      room == Get(WardRate, ward, DefaultWardRate) * los
      lab == Get(labsBy, adm.admission_id, 0)
      diag == Get(diagsBy, adm.admission_id, 0)
      med == Get(medsBy, adm.admission_id, 0)
  IN [admission_id |-> adm.admission_id, patient_id |-> adm.patient_id,
      ward_type |-> ward, los_days |-> los, room_rev_pkr |-> room,
      lab_rev_pkr |-> lab, diag_rev_pkr |-> diag, pharmacy_rev_pkr |-> med,
      total_rev_pkr |-> room + lab + diag + med]

\* the revenue stage: rev_rows, df_revenue, save_dataframe(...)
BuildRevenue ==
  /\ dpc = "revenue"
  /\ revenue' = [i \in 1..Len(admissions) |->
                   RevenueRow(admissions[i], ByAdmission(labs, "price_pkr"),
                              ByAdmission(diagnostics, "price_pkr"),
                              ByAdmission(meds, "total_price_pkr"))]
  /\ dpc' = "final"
  /\ UNCHANGED <<req, loop, patients, admissions, labs, diagnostics, meds, occRows,
                 occupancy, counts, drawsLeft, prog, logv, smp, outv, sfv>>

\* _write_status({"step": "done", "patients": len(df_patients), ...})
FinalCounts ==
  /\ dpc = "final"
  /\ counts' = [patients |-> Len(patients), admissions |-> Len(admissions),
                labs |-> Len(labs), diagnostics |-> Len(diagnostics),
                medications |-> Len(meds), revenue_rows |-> Len(revenue)]
  /\ dpc' = "done"
  /\ UNCHANGED <<req, loop, patients, admissions, labs, diagnostics, meds, occRows,
                 occupancy, revenue, drawsLeft, prog, logv, smp, outv, sfv>>

\* one tick of _live_loop: patients = [{...} for i in range(3)]
LiveGenPatients ==
  /\ dpc = "live_patients"
  /\ patients' = [i \in 1..LivePatients |-> [patient_id |-> <<"LP", req.batch, i>>]]
  /\ dpc' = "live_admissions"
  /\ UNCHANGED <<req, loop, admissions, labs, diagnostics, meds, occRows, occupancy,
                 revenue, counts, drawsLeft, prog, logv, smp, outv, sfv>>

\* for i in range(num_new): admissions.append({...}); admit_date = today
LiveGenAdmission ==
  /\ dpc = "live_admissions"
  /\ Len(admissions) < LiveAdmissions
  /\ \E los \in LiveLosDraws, pid \in PatientIds(patients), dept \in Elems(LiveDepartments) :
       /\ Spend(Cost(los, 1) + Cost(pid, <<"LP", req.batch, 1>>)
                + Cost(dept, LiveDepartments[1]))
       /\ admissions' = Append(admissions,
            [admission_id |-> <<"LA", req.batch, Len(admissions) + 1>>,
             patient_id |-> pid,
             admit_dt |-> req.start,
             discharge_dt |-> req.start + los,
             department |-> dept])
  /\ UNCHANGED <<dpc, req, loop, patients, labs, diagnostics, meds, occRows, occupancy,
                 revenue, counts, prog, logv, smp, outv, sfv>>

\* df_live_admissions, save_dataframe(...), _write_status({"last_live_counts": {...}})
LiveSaved ==
  /\ dpc = "live_admissions"
  /\ Len(admissions) = LiveAdmissions
  /\ counts' = [NoCounts EXCEPT !.patients = Len(patients), !.admissions = Len(admissions)]
  /\ dpc' = "done"
  /\ UNCHANGED <<req, loop, patients, admissions, labs, diagnostics, meds, occRows,
                 occupancy, revenue, drawsLeft, prog, logv, smp, outv, sfv>>

\* the requests followed record by record: a historic run over a date range
\* with start_date <= end_date, or one tick of a live worker
Requests ==
  {[mode |-> "historic", start |-> FirstDay, end |-> e, n |-> n, batch |-> 0] :
     e \in FirstDay..(FirstDay + MaxSpan), n \in 0..MaxDataPatients}
  \cup {[mode |-> "live", start |-> t, end |-> t, n |-> 0, batch |-> b] :
          t \in {FirstDay}, b \in 1..MaxBatch}

InitData ==
  /\ ProgIdle /\ LogIdle /\ SmpIdle /\ IoIdle
  /\ req \in Requests
  /\ dpc = IF req.mode = "historic" THEN "patients" ELSE "live_patients"
  /\ loop = [i |-> 0, k |-> 0, j |-> 0]
  /\ patients = <<>>
  /\ admissions = <<>>
  /\ labs = <<>>
  /\ diagnostics = <<>>
  /\ meds = <<>>
  /\ occRows = <<>>
  /\ occupancy = NoTable
  /\ revenue = <<>>
  /\ counts = NoCounts
  /\ drawsLeft = MaxDraws

NextData ==
  \/ GenPatient \/ PatientsSaved \/ GenAdmission \/ AdmissionsSaved
  \/ GenLab \/ LabsSaved \/ GenDiagnostic \/ DiagnosticsSaved
  \/ GenMedication \/ MedicationsSaved \/ BuildOccupancy \/ BuildRevenue \/ FinalCounts
  \/ LiveGenPatients \/ LiveGenAdmission \/ LiveSaved

SpecData == InitData /\ [][NextData]_vars

\* ------------------------------------------------------------------------
\* the log of the Run Status record

\* logs.append(f"[{timestamp}] {message}"): the entry is the stamped message
Entry(m) == [timestamp |-> "utcnow", message |-> m]

\* s[-n:]
LastN(s, n) == IF Len(s) <= n THEN s ELSE SubSeq(s, Len(s) - n + 1, Len(s))

\* _append_log with the list cut before the new entry is appended
AppendLogCallCutFirst ==
  /\ clock < MaxCalls
  /\ LET message == Len(sent) + 1
     IN /\ logs' = Append(LastN(logs, LogCap), Entry(message))
        /\ lastMessage' = message
        /\ sent' = Append(sent, message)
  /\ clock' = clock + 1
  /\ UNCHANGED <<prog, gen, smp, outv, sfv>>

\* _append_log(message); the n-th message of a behaviour is the number n
AppendLogCall ==
  /\ clock < MaxCalls
  /\ LET message == Len(sent) + 1
     IN /\ logs' = LastN(Append(logs, Entry(message)), LogCap)
        /\ lastMessage' = message
        /\ sent' = Append(sent, message)
  /\ clock' = clock + 1
  /\ UNCHANGED <<prog, gen, smp, outv, sfv>>

\* _write_status(update): no caller passes "logs" or "last_message" in update
WriteStatusCall ==
  /\ clock < MaxCalls
  /\ clock' = clock + 1
  /\ UNCHANGED <<logs, lastMessage, sent, prog, gen, smp, outv, sfv>>

InitLog == ProgIdle /\ GenIdle /\ SmpIdle /\ LogIdle /\ IoIdle

NextLog == AppendLogCall \/ WriteStatusCall

SpecLog == InitLog /\ [][NextLog]_vars

\* ------------------------------------------------------------------------
\* the record ids handed to the outputs by a sequence of historic runs and
\* live ticks of one process: the database tables every run and tick appends
\* to, and the files save_dataframe writes (a file of the same name is
\* overwritten).  Ids and file names are the strings the code formats, as
\* sequences of characters.

DigitChars == <<"0", "1", "2", "3", "4", "5", "6", "7", "8", "9">>

\* str(n) for a natural number n
RECURSIVE Digits(_)
Digits(n) ==
  IF n < 10 THEN <<DigitChars[n + 1]>>
  ELSE Digits(n \div 10) \o <<DigitChars[(n % 10) + 1]>>

\* f"{n:0wd}": at least w digits, zeros on the left
ZeroPad(n, w) == LET d == Digits(n) IN [i \in 1..(w - Len(d)) |-> "0"] \o d

\* f"P{i+1:06d}" and f"A{i+1:06d}", k = i + 1
PatientId(k) == <<"P">> \o ZeroPad(k, 6)
AdmissionId(k) == <<"A">> \o ZeroPad(k, 6)
\* f"LP{batch:04d}_{i+1:03d}" and f"LA{batch:04d}_{i+1:03d}"
LivePatientId(b, k) == <<"L", "P">> \o ZeroPad(b, 4) \o <<"_">> \o ZeroPad(k, 3)
LiveAdmissionId(b, k) == <<"L", "A">> \o ZeroPad(b, 4) \o <<"_">> \o ZeroPad(k, 3)

\* the id column of df_patients and df_admissions of a historic run of n patients
HistPatientIds(n) == [k \in 1..n |-> PatientId(k)]
HistAdmissionIds(n) == [k \in 1..NumAdmissions(n) |-> AdmissionId(k)]
\* the id column of df_live_patients and df_live_admissions of batch b
LivePatientIds(b) == [k \in 1..LivePatients |-> LivePatientId(b, k)]
LiveAdmissionIds(b) == [k \in 1..LiveAdmissions |-> LiveAdmissionId(b, k)]

\* f"{prefix}{name}" with date_prefix = start_date.strftime("%Y-%m") (month m)
HistFile(m, name) == ZeroPad(m, 2) \o <<"-", name>>
\* f"patients_live_{batch:04d}", f"admissions_live_{batch:04d}"
LiveFile(name, b) == <<name, "_">> \o ZeroPad(b, 4)

\* save_dataframe(df, outdir, name): the file of that name now holds df
SaveDataframe(files, name, ids) ==
  [f \in DOMAIN files \cup {name} |-> IF f = name THEN ids ELSE files[f]]

\* df.to_sql(table, con=engine, if_exists="append")
ToSql(tables, table, ids) == [tables EXCEPT ![table] = @ \o ids]

\* one generate_historic_data(start, end, n, ...) with start in month m: the
\* Patients and Admissions files are written, and both frames are appended to
\* their tables when _get_engine returned an engine
OutHistoric ==
  /\ outLeft.runs > 0
  /\ outLeft' = [outLeft EXCEPT !.runs = @ - 1]
  /\ \E n \in 0..MaxPatients, m \in 1..MaxRuns, connected \in BOOLEAN :
       /\ outFiles' = SaveDataframe(
                        SaveDataframe(outFiles, HistFile(m, "patients"), HistPatientIds(n)),
                        HistFile(m, "admissions"), HistAdmissionIds(n))
       /\ outTables' = IF connected
                       THEN ToSql(ToSql(outTables, "Patients", HistPatientIds(n)),
                                  "Admissions", HistAdmissionIds(n))
                       ELSE outTables
  /\ UNCHANGED <<outEngine, outBatch, sfv, prog, gen, logv, smp>>

\* start_live_simulation with the flag clear: _live_loop begins with
\* engine = _get_engine(db_url) and batch = 0
OutStartLive ==
  /\ outEngine = "none"
  /\ outLeft.starts > 0
  /\ outLeft' = [outLeft EXCEPT !.starts = @ - 1]
  /\ outEngine' \in {"ok", "down"}
  /\ outBatch' = 0
  /\ UNCHANGED <<outTables, outFiles, sfv, prog, gen, logv, smp>>

\* one tick of _live_loop: batch += 1, both frames saved under the batch
\* number and appended to the tables "if engine is not None"
OutLiveTick ==
  /\ outEngine # "none"
  /\ outBatch < MaxBatch
  /\ outBatch' = outBatch + 1
  /\ outFiles' = SaveDataframe(
                   SaveDataframe(outFiles, LiveFile("patients_live", outBatch'),
                                 LivePatientIds(outBatch')),
                   LiveFile("admissions_live", outBatch'), LiveAdmissionIds(outBatch'))
  /\ outTables' = IF outEngine = "ok"
                  THEN ToSql(ToSql(outTables, "Patients", LivePatientIds(outBatch')),
                             "Admissions", LiveAdmissionIds(outBatch'))
                  ELSE outTables
  /\ UNCHANGED <<outEngine, outLeft, sfv, prog, gen, logv, smp>>

\* stop_live_simulation: the worker leaves its loop, its batch counter is gone
OutStopLive ==
  /\ outEngine # "none"
  /\ outEngine' = "none"
  /\ UNCHANGED <<outTables, outFiles, outBatch, outLeft, sfv, prog, gen, logv, smp>>

InitOutputs ==
  /\ ProgIdle /\ GenIdle /\ LogIdle /\ SmpIdle /\ SfIdle
  /\ outTables = [Patients |-> <<>>, Admissions |-> <<>>]
  /\ outFiles = <<>>
  /\ outEngine = "none"
  /\ outBatch = 0
  /\ outLeft = [runs |-> MaxRuns, starts |-> MaxWorkers]

NextOutputs == OutHistoric \/ OutStartLive \/ OutLiveTick \/ OutStopLive

SpecOutputs == InitOutputs /\ [][NextOutputs]_vars

\* ------------------------------------------------------------------------
\* STATUS_FILE between its writers and GET /status.  A Run Status record is
\* the list of its (key, value) pairs in insertion order; the file holds the
\* tokens json.dump has written so far.  The foreground run and one live
\* worker update the record under _status_lock; the endpoint reads the file
\* without the lock.

SfWriters == {FG, 1}

\* the updates each writer passes to _write_status
SfUpdates(c) ==
  IF c = FG
  THEN {<<<<"mode", "historic">>, <<"step", "init">>>>, <<<<"step", "done">>>>}
  ELSE {<<<<"mode", "live">>, <<"step", "tick_init">>>>, <<<<"step", "tick">>>>}

\* current[key] = value
DictSet(rec, key, value) ==
  IF \E i \in DOMAIN rec : rec[i][1] = key
  THEN [i \in DOMAIN rec |-> IF rec[i][1] = key THEN <<key, value>> ELSE rec[i]]
  ELSE Append(rec, <<key, value>>)

\* current.update(update)
RECURSIVE DictUpdate(_, _)
DictUpdate(rec, upd) ==
  IF upd = <<>> THEN rec
  ELSE DictUpdate(DictSet(rec, Head(upd)[1], Head(upd)[2]), Tail(upd))

\* json.dump(current, f, indent=2): an opening brace, each key and its value,
\* a closing brace
JsonDump(rec) ==
  <<"{">> \o [i \in 1..(2 * Len(rec)) |-> rec[(i + 1) \div 2][2 - (i % 2)]] \o <<"}">>

\* json.load(f): the record of a complete document; an empty or cut-off
\* document raises JSONDecodeError
JsonLoad(text) ==
  IF /\ Len(text) >= 2 /\ Len(text) % 2 = 0
     /\ text[1] = "{" /\ text[Len(text)] = "}"
  THEN [ok |-> TRUE,
        rec |-> [i \in 1..((Len(text) - 2) \div 2) |-> <<text[2 * i], text[2 * i + 1]>>]]
  ELSE [ok |-> FALSE, rec |-> <<>>]

\* _read_status(): {} when the file is missing or does not parse
ReadStatus == IF sfFile.exists /\ JsonLoad(sfFile.text).ok THEN JsonLoad(sfFile.text).rec
              ELSE <<>>

\* the value of datetime.utcnow().isoformat() at the n-th update
UtcNow == DigitChars[(MaxWrites - sfLeft) + 1]

\* _write_status(update), up to the call of open(): the lock is taken, the
\* record read and updated
SfBegin(c) ==
  /\ sfPc[c] = "idle"
  /\ sfLock = -1
  /\ sfLeft > 0
  /\ sfLeft' = sfLeft - 1
  /\ sfLock' = c
  /\ \E upd \in SfUpdates(c) :
       sfDoc' = [sfDoc EXCEPT ![c] =
                   JsonDump(DictSet(DictUpdate(ReadStatus, upd), "updated_at", UtcNow))]
  /\ sfPc' = [sfPc EXCEPT ![c] = "open"]
  /\ UNCHANGED <<sfFile, sfDone, seen, outv, prog, gen, logv, smp>>

\* open(STATUS_FILE, "w"): the file is created or truncated
SfOpen(c) ==
  /\ sfPc[c] = "open"
  /\ sfFile' = [exists |-> TRUE, text |-> <<>>]
  /\ sfPc' = [sfPc EXCEPT ![c] = "dump"]
  /\ UNCHANGED <<sfLock, sfDoc, sfLeft, sfDone, seen, outv, prog, gen, logv, smp>>

\* json.dump writes the document piece by piece; the buffer of f may be
\* flushed to the file after any of them
SfFlush(c) ==
  /\ sfPc[c] = "dump"
  /\ \E n \in (Len(sfFile.text) + 1)..(Len(sfDoc[c]) - 1) :
       sfFile' = [sfFile EXCEPT !.text = SubSeq(sfDoc[c], 1, n)]
  /\ UNCHANGED <<sfLock, sfPc, sfDoc, sfLeft, sfDone, seen, outv, prog, gen, logv, smp>>

\* leaving the with blocks: the file is flushed and closed, the lock released
SfClose(c) ==
  /\ sfPc[c] = "dump"
  /\ sfFile' = [sfFile EXCEPT !.text = sfDoc[c]]
  /\ sfDone' = sfDone \cup {sfDoc[c]}
  /\ sfLock' = -1
  /\ sfPc' = [sfPc EXCEPT ![c] = "idle"]
  /\ UNCHANGED <<sfDoc, sfLeft, seen, outv, prog, gen, logv, smp>>

\* app.py status(): {"status": "idle"} when the file does not exist, else
\* json.load of the file as it is, a JSONDecodeError becoming an error reply
StatusEndpoint ==
  /\ seen' = [reply |-> IF ~sfFile.exists THEN "idle"
                        ELSE IF JsonLoad(sfFile.text).ok THEN "record" ELSE "error",
              text |-> sfFile.text]
  /\ UNCHANGED <<sfFile, sfLock, sfPc, sfDoc, sfLeft, sfDone, outv, prog, gen, logv, smp>>

InitStatusFile ==
  /\ ProgIdle /\ GenIdle /\ LogIdle /\ SmpIdle /\ OutIdle
  /\ sfFile = [exists |-> FALSE, text |-> <<>>]
  /\ sfLock = -1
  /\ sfPc = [c \in SfWriters |-> "idle"]
  /\ sfDoc = [c \in SfWriters |-> <<>>]
  /\ sfLeft = MaxWrites
  /\ sfDone = {}
  /\ seen = [reply |-> "none", text |-> <<>>]

NextStatusFile ==
  \/ \E c \in SfWriters : SfBegin(c) \/ SfOpen(c) \/ SfFlush(c) \/ SfClose(c)
  \/ StatusEndpoint

SpecStatusFile == InitStatusFile /\ [][NextStatusFile]_vars

\* ------------------------------------------------------------------------
\* properties

Range(f) == {f[i] : i \in DOMAIN f}
IsPrefix(a, b) == Len(a) <= Len(b) /\ \A i \in 1..Len(a) : a[i] = b[i]

SavePcs == {"sd_files", "sd_log", "sd_read", "sd_write"}
UploadPcs == {"up_client", "up_blob", "up_oklog", "up_read", "up_write", "up_faillog"}
EnginePcs == {"ge_connect", "ge_oklog", "ge_okwrite", "ge_faillog", "ge_failwrite"}
\* positions of one live tick: from its status update to the end of its handler
TickPcs == {"w_tick_status", "w_tick_log", "w_tosql", "w_dblog", "w_dbfaillog", "w_counts",
            "w_errlog"} \cup SavePcs \cup UploadPcs
\* positions of the db_write stage of a historic run, after its status update
DbStagePcs == {"h_tosql", "h_tolog", "h_dbok", "h_dbfaillog", "h_dbfailwrite"} \cup EnginePcs
\* positions inside generate_historic_data
HistPcs == {"h_init", "h_startlog", "h_parse", "h_step", "h_dbstep", "h_final", "h_donelog"}
           \cup SavePcs \cup UploadPcs \cup DbStagePcs

\* C1: at every moment at most one live worker thread is executing _live_loop.
C1_AtMostOneWorker == Cardinality({w \in Workers : Alive(w)}) <= 1

\* C2: a worker that was running when stop_live_simulation was called begins
\* no further tick (its loop test does not pass again).
C2_NoTickAfterStop ==
  [][\A w \in Workers :
       (stopSeen[w] /\ pc[w] = "w_check") => pc'[w] # "w_tick_status"]_vars

\* C3: once a historic run has reset files_written, every path a finished
\* save_dataframe call added to files_written, and every path
\* _upload_path_to_adls added to adls_uploaded, is still in the record when no
\* save_dataframe call is in progress.
C3_NoLostUpdate ==
  (histSteps # <<>> /\ \A c \in Ctx : pc[c] \notin SavePcs \cup UploadPcs)
    => (added \subseteq status.files_written /\ upAdded \subseteq status.adls_uploaded)

\* C4: start_live_simulation called while _live_running is true returns at
\* once: no thread is created, the flag, the thread handle, Run Status and its
\* log are unchanged; a thread is only ever created by a start request that
\* found the flag false and sets it.
C4_StartIdempotent ==
  [][/\ (pc[FG] = "start_called" /\ pc'[FG] # "start_called" /\ liveRunning)
          => /\ pc'[FG] = "idle"
             /\ \A w \in Workers : pc'[w] = pc[w]
             /\ UNCHANGED <<liveRunning, liveThread, nThreads, status, logged>>
     /\ (nThreads' # nThreads)
          => (~liveRunning /\ liveRunning' /\ nThreads' = nThreads + 1)]_vars
C4_Witness == pc[FG] = "start_called" /\ liveRunning /\ \E w \in Workers : Alive(w)

\* C5: the step values one invocation of generate_historic_data writes are a
\* prefix of init, patients, ..., db_write, done (each once, in that order),
\* the whole list when the invocation returns, and the step name of a stage is
\* written before any record of that stage is generated or saved.
C5_StepsInOrder ==
  /\ IsPrefix(histSteps, StepOrder)
  /\ pc[FG] = "done" => histSteps = StepOrder
  /\ generated \subseteq Range(histSteps)
  /\ saved \subseteq generated
C5_Witness == pc[FG] = "done" /\ histSteps = StepOrder /\ saved = Range(HistStages)

\* the place of an escaped exception of the historic run
HistFailed == pc[FG] = "failed" /\ died[FG].at \in HistPcs
\* index in StepOrder of the stage whose step write last preceded position at
\* (0: none), and of the last stage whose work was over at that position
StartedIdx(at, stg) ==
  CASE at = "h_init" -> 0
    [] at \in {"h_startlog", "h_parse"} -> 1
    [] at = "h_step" -> stg
    [] at \in SavePcs \cup UploadPcs -> stg + 1
    [] at = "h_dbstep" -> 8
    [] at \in DbStagePcs \cup {"h_final"} -> 9
    [] OTHER -> 10
CompletedIdx(at, stg) ==
  IF at \in {"h_init", "h_step", "h_dbstep", "h_final"}
  THEN StartedIdx(at, stg) ELSE StartedIdx(at, stg) - 1

C7_FileFailureCaught == ~(HistFailed /\ died[FG].cause = "file")

\* C8: a database failure never aborts a run. A failed connectivity check is
\* recorded as db_connected = false with db_error and logged, and no table
\* append is attempted afterwards by that run or that worker; a failed append
\* is logged; no database failure escapes; the db_write stage is left for the
\* final status write, and the finished run has recorded its counts.
C8_DbFailureNotFatal ==
  /\ [](/\ \A c \in Ctx : engine[c] = "none" => ~appended[c]
        /\ \A c \in Ctx : died[c].cause # "db"
        /\ \A c \in Ctx : pc[c] = "ge_failwrite" => logged[c] = "Database connection failed"
        /\ pc[FG] = "h_dbfailwrite" => logged[FG] = "DB write failed"
        /\ pc[FG] = "done" => /\ status.patients = numPatients
                              /\ status.admissions = numPatients * AdmissionsPerPatient
                              /\ status.revenue_rows = numPatients * AdmissionsPerPatient)
  /\ [][/\ \A c \in Ctx : (engine[c] # "none" /\ engine'[c] = "none")
                            => (status'.db_connected = "no" /\ status'.db_error)
        /\ (pc[FG] \in DbStagePcs /\ pc'[FG] \notin DbStagePcs)
             => (pc'[FG] = "h_final" \/ (pc'[FG] = "failed" /\ died'[FG].cause = "status"))
       ]_vars
C8_Witness ==
  /\ pc[FG] = "done" /\ engine[FG] = "none" /\ ~appended[FG]
  /\ status.db_connected = "no" /\ status.db_error /\ status.patients = numPatients
  /\ \E w \in Workers : engine[w] = "none" /\ pc[w] = "w_sleep" /\ ~appended[w]

\* C9: no exception raised during a live tick terminates the worker.
C9_TickExceptionsCaught ==
  \A w \in Workers : pc[w] = "crashed" => died[w].at \notin TickPcs

\* C10: a malformed date or a non-numeric patient count is raised to the
\* caller before anything is generated or saved: at the parse of the count in
\* the control panel or at the date parse right after the init status update.
C10_ParameterErrorFailsFast ==
  died[FG].cause = "param"
    => /\ pc[FG] = "failed"
       /\ died[FG].at \in {"gen_called", "h_parse"}
       /\ generated = {} /\ saved = {}
       /\ histSteps \in {<<>>, <<"init">>}
C10_Witness ==
  /\ pc[FG] = "failed" /\ died[FG].cause = "param" /\ died[FG].at = "h_parse"
  /\ status.step = "init" /\ generated = {}

\* cumulative weight of the first i pairs
Cumulative(opts, i) == SumWeights(SubSeq(opts, 1, i))

\* C17: the logs list holds at most 200 entries, which are the most recent
\* min(n, 200) appended messages in the order they were appended, and
\* last_message is the newest message.
C17_LogBounded ==
  /\ Len(logs) <= LogCap
  /\ Len(logs) = IF Len(sent) < LogCap THEN Len(sent) ELSE LogCap
  /\ \A i \in 1..Len(logs) : logs[i] = Entry(sent[Len(sent) - Len(logs) + i])
  /\ sent # <<>> => lastMessage = sent[Len(sent)]
C17_Witness ==
  /\ Len(sent) > LogCap /\ Len(logs) = LogCap
  /\ logs[1].message = Len(sent) - LogCap + 1 /\ clock > Len(sent)

\* C18: weighted_choice returns exactly one item of the list: the item of the
\* first pair whose cumulative weight is >= r, the last item if there is none.
C18_SamplerPicksFirstReached ==
  wcResult # 0 =>
    LET reached == {i \in 1..Len(wcOptions) : Cumulative(wcOptions, i) >= wcR}
    IN /\ \E i \in 1..Len(wcOptions) : wcResult = wcOptions[i][1]
       /\ IF reached = {}
          THEN wcResult = wcOptions[Len(wcOptions)][1]
          ELSE \E i \in reached : /\ \A j \in reached : i <= j
                                  /\ wcResult = wcOptions[i][1]
C18_Witness ==
  /\ wcResult # 0 /\ Len(wcOptions) = MaxOptions
  /\ wcR = Cumulative(wcOptions, 2) /\ wcResult = wcOptions[2][1]
  /\ wcOptions[3][1] # wcResult

\* ---- the data of one generation

IsHistoric == req.mode = "historic"
AfterOccupancy == dpc \in {"revenue", "final", "done"}
AfterRevenue == dpc \in {"final", "done"}
Stay(adm) == adm.discharge_dt - adm.admit_dt
\* the admissions carrying an id
WithId(id) == {i \in DOMAIN admissions : admissions[i].admission_id = id}

RECURSIVE SumOver(_, _, _)
\* sum of field over the records of recs at the indices in S
SumOver(recs, S, field) ==
  IF S = {} THEN 0
  ELSE LET i == CHOOSE x \in S : TRUE
       IN recs[i][field] + SumOver(recs, S \ {i}, field)

\* C11: the occupancy rows an admission of a historic run contributes number
\* exactly its length-of-stay in days (discharge date minus admit date).
C11_OccupancyDaysEqualLos ==
  (IsHistoric /\ AfterOccupancy) =>
    \A i \in DOMAIN admissions :
      Cardinality({j \in DOMAIN occRows :
                     occRows[j].admission_id = admissions[i].admission_id})
        = Stay(admissions[i])

\* the number of admissions of a department and ward type whose stay, admit
\* date through discharge date inclusive, contains date d
BedsOn(d, dept, ward) ==
  Cardinality({i \in DOMAIN admissions :
                 /\ admissions[i].department = dept
                 /\ admissions[i].ward_type = ward
                 /\ admissions[i].admit_dt <= d /\ d <= admissions[i].discharge_dt})
OccupancyKeys ==
  (FirstDay..(FirstDay + MaxSpan + HistMaxLos)) \X Elems(Departments) \X Elems(WardTypes)

\* C12: the Occupancy table has the four columns date, department,
\* ward_type, beds_occupied and, for every (date, department, ward type),
\* one row with the number of admissions of that department and ward type
\* whose inclusive stay contains the date when that number is positive, and no
\* row otherwise; no admission gives the empty table of that shape.
C12_OccupancyCounts ==
  (IsHistoric /\ AfterOccupancy) =>
    /\ occupancy.columns = <<"date", "department", "ward_type", "beds_occupied">>
    /\ occupancy.rows =
         {[date |-> key[1], department |-> key[2], ward_type |-> key[3],
           beds_occupied |-> BedsOn(key[1], key[2], key[3])] :
            key \in {x \in OccupancyKeys : BedsOn(x[1], x[2], x[3]) > 0}}
    /\ admissions = <<>> => occupancy.rows = {}
C12_Witness ==
  /\ IsHistoric /\ dpc = "done"
  /\ \E r1, r2 \in occupancy.rows :
       /\ r1.beds_occupied = 2 /\ r2.beds_occupied = 1
       /\ r1.department = r2.department /\ r1.ward_type = r2.ward_type

\* C13: one Revenue row per Admission, with los_days = max(1, discharge -
\* admit), room_rev = ward rate (default 4500) x los_days, lab, diagnostic and
\* pharmacy revenue the sums of price over exactly the records carrying that
\* admission_id, and total_rev the sum of the four.
C13_RevenueRows ==
  (IsHistoric /\ AfterRevenue) =>
    /\ Len(revenue) = Len(admissions)
    /\ \A i \in DOMAIN admissions :
         LET adm == admissions[i]
             row == revenue[i]
             los == IF Stay(adm) > 1 THEN Stay(adm) ELSE 1
             mine(recs) == {j \in DOMAIN recs : recs[j].admission_id = adm.admission_id}
         IN /\ row.admission_id = adm.admission_id
            /\ \A k \in DOMAIN revenue : revenue[k].admission_id = adm.admission_id => k = i
            /\ row.los_days = los
            /\ row.room_rev_pkr =
                 (IF adm.ward_type \in DOMAIN WardRate THEN WardRate[adm.ward_type]
                  ELSE DefaultWardRate) * los
            /\ row.lab_rev_pkr = SumOver(labs, mine(labs), "price_pkr")
            /\ row.diag_rev_pkr = SumOver(diagnostics, mine(diagnostics), "price_pkr")
            /\ row.pharmacy_rev_pkr = SumOver(meds, mine(meds), "total_price_pkr")
            /\ row.total_rev_pkr = row.room_rev_pkr + row.lab_rev_pkr + row.diag_rev_pkr
                                   + row.pharmacy_rev_pkr
C13_Witness ==
  /\ IsHistoric /\ dpc = "done"
  /\ \E i, k \in DOMAIN revenue :
       /\ revenue[i].diag_rev_pkr = 0 /\ revenue[i].pharmacy_rev_pkr > 0
       /\ revenue[k].lab_rev_pkr = 2 * LabRate["CBC"] /\ revenue[k].diag_rev_pkr > 0

\* C14: every generated Admission has discharge date >= admit date and a
\* length-of-stay of at least 1: 1 to 12 in a historic run, with the admit
\* date within [start, end], and 1 to 10 in a live tick.
C14_StayBounds ==
  \A i \in DOMAIN admissions :
    LET adm == admissions[i]
    IN /\ adm.discharge_dt >= adm.admit_dt
       /\ Stay(adm) >= 1
       /\ IsHistoric => /\ Stay(adm) <= HistMaxLos
                        /\ req.start <= adm.admit_dt /\ adm.admit_dt <= req.end
       /\ ~IsHistoric => Stay(adm) <= LiveMaxLos
C14_Witness ==
  /\ IsHistoric /\ req.start < req.end
  /\ \E i \in DOMAIN admissions :
       Stay(admissions[i]) = HistMaxLos /\ admissions[i].admit_dt = req.end

\* C15: the date of every Lab and every Diagnostic record of a historic run
\* lies within [admit_dt, discharge_dt] of the admission whose id it carries.
C15_DatesWithinStay ==
  IsHistoric =>
    /\ \A j \in DOMAIN labs : \A i \in WithId(labs[j].admission_id) :
         /\ admissions[i].admit_dt <= labs[j].ordered_dt
         /\ labs[j].ordered_dt <= admissions[i].discharge_dt
    /\ \A j \in DOMAIN diagnostics : \A i \in WithId(diagnostics[j].admission_id) :
         /\ admissions[i].admit_dt <= diagnostics[j].performed_dt
         /\ diagnostics[j].performed_dt <= admissions[i].discharge_dt
C15_Witness ==
  /\ IsHistoric
  /\ \E j \in DOMAIN labs, d \in DOMAIN diagnostics :
       /\ \E i \in WithId(labs[j].admission_id) :
            labs[j].ordered_dt = admissions[i].discharge_dt
       /\ \E i \in WithId(diagnostics[d].admission_id) :
            diagnostics[d].performed_dt = admissions[i].discharge_dt

\* C16: a historic run for N patients that completes has N Patient records,
\* 3N Admission records and 3N Revenue rows with a ward_type of the five ward
\* types, every Occupancy row's department in the department catalog, and
\* the final status counts equal to the numbers of records; with N = 0 every
\* set is empty.
C16_CountsForN ==
  (IsHistoric /\ dpc = "done") =>
    /\ Len(patients) = req.n
    /\ Len(admissions) = 3 * req.n
    /\ Len(revenue) = 3 * req.n
    /\ \A i \in DOMAIN revenue :
         revenue[i].ward_type \in {"General", "Semi-private", "Private", "Executive", "ICU"}
    /\ \A r \in occupancy.rows : r.department \in Elems(Departments)
    /\ counts = [patients |-> req.n, admissions |-> 3 * req.n, labs |-> Len(labs),
                 diagnostics |-> Len(diagnostics), medications |-> Len(meds),
                 revenue_rows |-> 3 * req.n]
    /\ req.n = 0 => /\ labs = <<>> /\ diagnostics = <<>> /\ meds = <<>>
                    /\ occupancy.rows = {} /\ revenue = <<>>
C16_Witness ==
  /\ IsHistoric /\ dpc = "done" /\ req.n = 1
  /\ counts.admissions = 3 /\ counts.revenue_rows = 3 /\ counts.labs = 4
  /\ counts.diagnostics = 2

\* C19: for every Patient of a historic run, panel_name is set, to a name of
\* the panel list, if and only if panel is true, and is None otherwise.
C19_PanelNameIffPanel ==
  IsHistoric =>
    \A i \in DOMAIN patients :
      /\ patients[i].panel <=> patients[i].panel_name # "None"
      /\ patients[i].panel => patients[i].panel_name \in Elems(Panels)
C19_Witness ==
  /\ IsHistoric
  /\ \E i \in DOMAIN patients : patients[i].panel /\ patients[i].panel_name = Panels[2]

\* C20: each Admission's patient_id is the id of a Patient generated earlier
\* in the same run or tick, and each Lab, Diagnostic and Medication record of
\* a historic run carries the id of a generated Admission and that
\* admission's patient_id.
C20_ReferencesExist ==
  LET parent(rec) == \E i \in DOMAIN admissions :
                       /\ admissions[i].admission_id = rec.admission_id
                       /\ admissions[i].patient_id = rec.patient_id
  IN /\ \A i \in DOMAIN admissions :
          \E p \in DOMAIN patients : patients[p].patient_id = admissions[i].patient_id
     /\ IsHistoric => /\ \A j \in DOMAIN labs : parent(labs[j])
                      /\ \A j \in DOMAIN diagnostics : parent(diagnostics[j])
                      /\ \A j \in DOMAIN meds : parent(meds[j])
C20_Witness ==
  /\ ~IsHistoric /\ dpc = "done"
  /\ \E i, k \in DOMAIN admissions :
       /\ admissions[i].patient_id = <<"LP", req.batch, LivePatients>>
       /\ admissions[k].patient_id = <<"LP", req.batch, 1>>

\* C22: whenever the live-running flag is true a live worker is alive: no
\* worker leaves _live_loop, by return or by an exception, with the flag
\* still true (start_live_simulation sets the flag and starts the worker in
\* one step of the foreground, so "being started" is alive here).
C22_FlagImpliesWorker ==
  liveRunning => \E w \in Workers : Alive(w)

\* C24: db_error is in the Run Status record only while db_connected is false.
C24_DbErrorOnlyWhenDisconnected ==
  status.db_error => status.db_connected = "no"

\* C21: no two records of one entity type handed to the same output carry the
\* same id: the ids appended to the Patients table are pairwise distinct, so
\* are those appended to the Admissions table, and so are the ids in each file.
C21_IdsUnique ==
  LET distinct(ids) == \A i, j \in DOMAIN ids : ids[i] = ids[j] => i = j
  IN /\ distinct(outTables.Patients)
     /\ distinct(outTables.Admissions)
     /\ \A f \in DOMAIN outFiles : distinct(outFiles[f])

\* C23: a GET /status at any time replies {"status": "idle"} because the
\* store does not exist, or replies with a complete record that some finished
\* update left in the file; it never reads an empty or cut-off document.
C23_MonitorSeesComplete ==
  \/ seen.reply \in {"none", "idle"}
  \/ seen.reply = "record" /\ seen.text \in sfDone

=============================================================================
